---- MODULE Spec2Model ----
(***************************************************************************)
(* Del Mar equine command: the record store (owners, horses, locations),   *)
(* the horse/owner management component, the season import, the tracking   *)
(* id generator and the views that join horses to assignments/locations.   *)
(***************************************************************************)
EXTENDS Integers, Sequences, FiniteSets, TLC

\* ------------------------------------------------------------------ bounds
\* highest owner id the store hands out in the model (++id is unbounded)
MaxOwnerId == 3
\* highest horse id the store hands out in the model (++id is unbounded)
MaxHorseId == 3
\* highest location id the store hands out in the model
MaxLocationId == 2
\* size of the random range of generateTrackingId (9999 in the source)
MaxRandom == 3
\* number of seeded horses (50 in the source)
SeedHorses == 2
\* longest CSV file (data rows) fed to the two imports
MaxRows == 2

\* ------------------------------------------------------- program constants
\* `if (attempts > 100) throw`
MaxAttempts == 100

\* undefined / null / missing: as a string, as a row, as an id, as a tracking id
NULL == "undefined"
NoRow == [id |-> 0]
NoId == 0
NoTrackingId == <<>>
\* the rejection of generateTrackingId's promise
Throw == <<"throw">>

\* ------------------------------------------------------------------- state
VARIABLES
  owners,        \* db.owners rows
  horses,        \* db.horses rows
  locations,     \* db.locations rows
  nextOwnerId,   \* ++id of db.owners
  nextHorseId,   \* ++id of db.horses
  nextLocationId,\* ++id of db.locations
  mgmtHorses,    \* HorseOwnerManagement: useState horses
  mgmtOwners,    \* HorseOwnerManagement: useState owners
  loadPending,   \* HorseOwnerManagement: a loadData() call that has not resolved yet
  selectedSeason,\* SeasonManagementPage: useState selectedSeason
  selectedRacetrack, \* SeasonManagementPage: useState selectedRacetrack
  toast,         \* the notification raised last
  attempts,      \* generateTrackingId: let attempts
  genTrackingId, \* generateTrackingId: let trackingId
  genState,      \* generateTrackingId: "running", "returned" or "thrown"
  location_assignments, \* db.location_assignments rows
  horseStatuses, \* CommandCenter: useState horseStatuses
  problemHorses, \* ProblemsView: useState problemHorses
  gridHorses,    \* DataGridPage: useState horses
  horsesWithLocations, \* LocationMap: useState horsesWithLocations
  page,          \* the view that is mounted and has loaded ("" before any has)
  users,         \* db.users rows
  storedUser,    \* localStorage item 'equine_user'
  user,          \* AuthProvider: useState user
  authLoading,   \* AuthProvider: useState isLoading
  filters,       \* useUnifiedFilters: useState filters
  filterData,    \* useUnifiedFilters: useState filterData
  pageHorses,    \* HorsesPage: useState horses
  allHorses,     \* Dashboard: useState allHorses
  races,         \* db.races rows
  pageRaces,     \* RacesPage: useState races
  reportData,    \* ReportsPage: useState reportData
  ops,           \* the horse-creating operation of each open tab, by its await points
  loads,         \* CommandCenter: the loadCommandData calls, by their await points
  finished,      \* CommandCenter: the calls in the order of their setHorseStatuses
  isLoading,     \* the mounted page: useState isLoading
  race_participants, \* db.race_participants rows
  seasonHorses,  \* SeasonManagementPage: useState horses
  selectedHorseIds \* DataGridPage, SeasonManagementPage: useState selectedHorses

storeVars == <<owners, horses, locations, nextOwnerId, nextHorseId, nextLocationId>>
mgmtVars == <<mgmtHorses, mgmtOwners, loadPending>>
seasonVars == <<selectedSeason, selectedRacetrack>>
genVars == <<attempts, genTrackingId, genState>>
viewVars == <<location_assignments, horseStatuses, problemHorses, gridHorses,
              horsesWithLocations, page>>
authVars == <<users, storedUser, user, authLoading>>
filterVars == <<filters, filterData>>
listVars == <<pageHorses, allHorses, races, pageRaces, reportData>>
asyncVars == <<ops, loads, finished, isLoading>>
selVars == <<race_participants, seasonHorses, selectedHorseIds>>
restVars == <<authVars, filterVars, listVars>>
vars == <<owners, horses, locations, nextOwnerId, nextHorseId, nextLocationId,
          mgmtHorses, mgmtOwners, loadPending, selectedSeason, selectedRacetrack, toast,
          attempts, genTrackingId, genState, location_assignments, horseStatuses,
          problemHorses, gridHorses, horsesWithLocations, page,
          users, storedUser, user, authLoading, filters, filterData, pageHorses, allHorses,
          races, pageRaces, reportData, ops, loads, finished, isLoading,
          race_participants, seasonHorses, selectedHorseIds>>

\* ------------------------------------------------------------ value domains
\* tracking ids: DM<year><4 digits> and the season import's TRK<time>-<random>
DM(n) == <<"DM", n>>
TRK(n) == <<"TRK", n>>
\* candidates `DM${year}${String(randomNum).padStart(4, '0')}` of generateTrackingId
RandomTrackingIds == {DM(n) : n \in 1..MaxRandom}
\* candidates of the season import's fallback id
FallbackTrackingIds == {TRK(1)}

Ids(rows) == {r.id : r \in rows}

\* Dexie Collection.first(): the matching row with the least primary key
First(rows) ==
  IF rows = {} THEN NoRow
  ELSE CHOOSE r \in rows : \A q \in rows : r.id <= q.id

\* Array.prototype.find over a table read with toArray() (primary key order)
Find(rows) == First(rows)

\* db.<table>.toArray(): the rows in primary key order
RECURSIVE ToArray(_)
ToArray(rows) ==
  IF rows = {} THEN <<>>
  ELSE LET r == First(rows) IN <<r>> \o ToArray(rows \ {r})

\* ------------------------------------------------------------ seeded store
SeedOwners ==
  { [id |-> 1, name |-> "John Smith Racing", email |-> "john@smithracing.com"],
    [id |-> 2, name |-> "Golden Gate Stables", email |-> "info@goldengatestables.com"] }

SeedLocations == { [id |-> 1, name |-> "Barn A", capacity |-> 50] }

SeedHorseRows ==
  { [id |-> i, tracking_id |-> DM(i), owner_id |-> (IF i % 2 = 0 THEN 1 ELSE 2),
     status |-> "active", current_location_id |-> NoId, current_activity |-> NULL] : i \in 1..SeedHorses }

\* field values the forms and CSV files are filled with
OwnerNames == {"John Smith Racing", "New Stable"}
OwnerEmails == {"john@smithracing.com", "new@stable.com"}
Seasons == {"2024", "2025"}

Toast(title, description) == [title |-> title, description |-> description]
NoToast == Toast(NULL, NULL)

\* --------------------------------------------------- HorseOwnerManagement
\* generateTrackingId, run to completion against the table hs: every id it can
\* return and, when a candidate can collide on each attempt, the throw
\* a generator that skips the lookup of the candidate
GenerateTrackingIdNoLookup(hs) == RandomTrackingIds

GenerateTrackingId(hs) ==
  {t \in RandomTrackingIds : First({h \in hs : h.tracking_id = t}) = NoRow}
    \cup (IF \E t \in RandomTrackingIds : First({h \in hs : h.tracking_id = t}) # NoRow
          THEN {Throw} ELSE {})

\* a validation that accepts every email
validateOwnerEmailAlways(os, email, excludeId) == TRUE

validateOwnerEmail(os, email, excludeId) ==
  LET existing == First({o \in os : o.email = email})
  IN  existing = NoRow \/ existing.id = excludeId

\* loadData: the three toArray() reads of one Promise.all, then the setters
LoadData ==
  /\ loadPending
  /\ mgmtHorses' = horses
  /\ mgmtOwners' = owners
  /\ loadPending' = FALSE
  /\ UNCHANGED <<storeVars, seasonVars, selVars, asyncVars, restVars, genVars, viewVars, toast>>

addOwner(name, email) ==
  IF name = "" \/ email = ""
  THEN /\ toast' = Toast("Validation Error", "Name and email are required")
       /\ UNCHANGED <<storeVars, mgmtVars, seasonVars, selVars, asyncVars, restVars, genVars, viewVars>>
  ELSE IF ~validateOwnerEmail(owners, email, NoId)
  THEN /\ toast' = Toast("Validation Error", "Email address already exists")
       /\ UNCHANGED <<storeVars, mgmtVars, seasonVars, selVars, asyncVars, restVars, genVars, viewVars>>
  ELSE /\ nextOwnerId <= MaxOwnerId
       /\ owners' = owners \cup {[id |-> nextOwnerId, name |-> name, email |-> email]}
       /\ nextOwnerId' = nextOwnerId + 1
       /\ toast' = Toast("Success", "Owner added successfully")
       /\ loadPending' = TRUE
       /\ UNCHANGED <<horses, locations, nextHorseId, nextLocationId,
                      mgmtHorses, mgmtOwners, seasonVars, selVars, asyncVars, restVars, genVars, viewVars>>

\* newHorse.name is filled in; ownerId is newHorse.owner_id (NoId: none chosen)
addHorse(ownerId) ==
  IF ownerId = NoId
  THEN /\ toast' = Toast("Validation Error", "Name and owner are required")
       /\ UNCHANGED <<storeVars, mgmtVars, seasonVars, selVars, asyncVars, restVars, genVars, viewVars>>
  ELSE \E trackingId \in GenerateTrackingId(horses) :
         IF trackingId = Throw
         THEN /\ toast' = Toast("Error", "Failed to add horse")
              /\ UNCHANGED <<storeVars, mgmtVars, seasonVars, selVars, asyncVars, restVars, genVars, viewVars>>
         ELSE /\ nextHorseId <= MaxHorseId
              /\ horses' = horses \cup
                   {[id |-> nextHorseId, tracking_id |-> trackingId, owner_id |-> ownerId,
                     status |-> "active", current_location_id |-> NoId,
                     current_activity |-> ""]}
              /\ nextHorseId' = nextHorseId + 1
              /\ toast' = Toast("Success", "Horse added successfully")
              /\ loadPending' = TRUE
              /\ UNCHANGED <<owners, locations, nextOwnerId, nextLocationId,
                             mgmtHorses, mgmtOwners, seasonVars, selVars, asyncVars, restVars, genVars, viewVars>>

deleteSelectedHorses(selectedHorses) ==
  /\ selectedHorses # {}
  /\ horses' = {h \in horses : h.id \notin selectedHorses}
  /\ toast' = Toast("Success", "horse(s) deleted successfully")
  /\ loadPending' = TRUE
  /\ UNCHANGED <<owners, locations, nextOwnerId, nextHorseId, nextLocationId,
                 mgmtHorses, mgmtOwners, seasonVars, selVars, asyncVars, restVars, genVars, viewVars>>

\* a deletion that skips the check for assigned horses
deleteSelectedOwnersUnchecked(selectedOwners) ==
  /\ selectedOwners # {}
  /\ owners' = {o \in owners : o.id \notin selectedOwners}
  /\ toast' = Toast("Success", "owner(s) deleted successfully")
  /\ loadPending' = TRUE
  /\ UNCHANGED <<horses, locations, nextOwnerId, nextHorseId, nextLocationId,
                 mgmtHorses, mgmtOwners, seasonVars, selVars, asyncVars, restVars, genVars, viewVars>>

deleteSelectedOwners(selectedOwners) ==
  /\ selectedOwners # {}
  /\ LET ownersWithHorses ==
           {owner \in mgmtOwners :
              /\ owner.id \in selectedOwners
              /\ \E horse \in mgmtHorses : horse.owner_id = owner.id}
     IN IF ownersWithHorses # {}
        THEN /\ toast' = Toast("Cannot Delete", "owner(s) have horses assigned. Remove horses first.")
             /\ UNCHANGED <<storeVars, mgmtVars, seasonVars, selVars, asyncVars, restVars, genVars, viewVars>>
        ELSE /\ owners' = {o \in owners : o.id \notin selectedOwners}
             /\ toast' = Toast("Success", "owner(s) deleted successfully")
             /\ loadPending' = TRUE
             /\ UNCHANGED <<horses, locations, nextOwnerId, nextHorseId, nextLocationId,
                            mgmtHorses, mgmtOwners, seasonVars, selVars, asyncVars, restVars, genVars, viewVars>>

\* CSV files: every sequence of at most MaxRows rows
Files(rowSet) == UNION {[1..n -> rowSet] : n \in 0..MaxRows}

\* rows of the horse/owner bulk import (the columns the handler reads)
BulkRows ==
  [horse_name : {"Horse"}, owner_name : {"", "New Stable"}, owner_email : OwnerEmails]

\* handleBulkImport, first pass: owners. map is ownerEmailMap (email -> id)
RECURSIVE BulkImportOwners(_, _, _, _)
BulkImportOwners(os, nextId, map, data) ==
  IF data = <<>> THEN [owners |-> os, nextOwnerId |-> nextId, ownerEmailMap |-> map]
  ELSE LET row == Head(data) IN
       IF /\ row.owner_name # ""
          /\ row.owner_email # ""
          /\ ~\E e \in map : e[1] = row.owner_email
          /\ validateOwnerEmail(os, row.owner_email, NoId)
       THEN BulkImportOwners(
              os \cup {[id |-> nextId, name |-> row.owner_name, email |-> row.owner_email]},
              nextId + 1, map \cup {<<row.owner_email, nextId>>}, Tail(data))
       ELSE BulkImportOwners(os, nextId, map, Tail(data))

\* handleBulkImport, second pass: horses. Every outcome the generated ids allow;
\* ok = FALSE when generateTrackingId threw and the rest of the file was dropped
RECURSIVE BulkImportHorses(_, _, _, _, _)
BulkImportHorses(hs, nextId, os, map, data) ==
  IF data = <<>> THEN {[horses |-> hs, nextHorseId |-> nextId, ok |-> TRUE]}
  ELSE LET row == Head(data)
           mapped == {e \in map : e[1] = row.owner_email}
           existingOwner == First({o \in os : o.email = row.owner_email})
           ownerId == IF mapped # {} THEN (CHOOSE e \in mapped : TRUE)[2]
                      ELSE existingOwner.id
       IN IF row.horse_name # "" /\ row.owner_email # "" /\ ownerId # NoId
          THEN UNION {
                 IF trackingId = Throw
                 THEN {[horses |-> hs, nextHorseId |-> nextId, ok |-> FALSE]}
                 ELSE BulkImportHorses(
                        hs \cup {[id |-> nextId, tracking_id |-> trackingId,
                                  owner_id |-> ownerId, status |-> "active",
                                  current_location_id |-> NoId, current_activity |-> ""]},
                        nextId + 1, os, map, Tail(data))
                 : trackingId \in GenerateTrackingId(hs)}
          ELSE BulkImportHorses(hs, nextId, os, map, Tail(data))

handleBulkImport(data) ==
  LET first == BulkImportOwners(owners, nextOwnerId, {}, data)
  IN \E second \in BulkImportHorses(horses, nextHorseId, first.owners,
                                    first.ownerEmailMap, data) :
       /\ first.nextOwnerId <= MaxOwnerId + 1
       /\ second.nextHorseId <= MaxHorseId + 1
       /\ owners' = first.owners
       /\ nextOwnerId' = first.nextOwnerId
       /\ horses' = second.horses
       /\ nextHorseId' = second.nextHorseId
       /\ IF second.ok
          THEN /\ toast' = Toast("Success", "Bulk import completed successfully")
               /\ loadPending' = TRUE
          ELSE /\ toast' = Toast("Error", "Failed to import data")
               /\ UNCHANGED loadPending
       /\ UNCHANGED <<locations, nextLocationId, mgmtHorses, mgmtOwners, seasonVars, selVars, asyncVars, restVars, genVars, viewVars>>

\* ---------------------------------------------------- SeasonManagementPage
Racetracks == {"Del Mar"}
LocationNames == {""}
\* values of the TrackingID column: empty, or an id (the first seeded one)
CsvTrackingIds == {NoTrackingId, DM(1)}

\* rows of the season import (the columns the handler reads): every row of the
\* first season, and one row of the other season
SeasonRows ==
  [Season : {"2024"}, Racetrack : Racetracks, HorseName : {"Horse"},
   OwnerName : OwnerNames, OwnerEmail : OwnerEmails,
   TrackingID : CsvTrackingIds, LocationName : LocationNames]
  \cup
  [Season : {"2025"}, Racetrack : Racetracks, HorseName : {"Horse"},
   OwnerName : {"John Smith Racing"}, OwnerEmail : {"john@smithracing.com"},
   TrackingID : {NoTrackingId}, LocationName : LocationNames]

\* Array.from(new Map(data.map(row => [key(row), value(row)])).values()):
\* one entry per key, in the order the keys first occur
RECURSIVE UniqueByKey(_, _)
UniqueByKey(keys, seen) ==
  IF keys = <<>> THEN <<>>
  ELSE IF Head(keys) \in seen THEN UniqueByKey(Tail(keys), seen)
  ELSE <<Head(keys)>> \o UniqueByKey(Tail(keys), seen \cup {Head(keys)})

\* the keys `${row.OwnerName}-${row.OwnerEmail}` of the file, as (name, email)
uniqueOwners(data) ==
  UniqueByKey([i \in 1..Len(data) |-> <<data[i].OwnerName, data[i].OwnerEmail>>], {})

\* the keys row.LocationName of the rows that have one
uniqueLocations(data) ==
  LET named == SelectSeq(data, LAMBDA row : row.LocationName # "")
  IN UniqueByKey([i \in 1..Len(named) |-> named[i].LocationName], {})

\* `for (const owner of uniqueOwners)`: add the owner unless its email exists
RECURSIVE SeasonImportOwners(_, _, _)
SeasonImportOwners(os, nextId, uniq) ==
  IF uniq = <<>> THEN [owners |-> os, nextOwnerId |-> nextId]
  ELSE LET owner == Head(uniq)
           existingOwner == First({o \in os : o.email = owner[2]})
       IN IF existingOwner = NoRow
          THEN SeasonImportOwners(
                 os \cup {[id |-> nextId, name |-> owner[1], email |-> owner[2]]},
                 nextId + 1, Tail(uniq))
          ELSE SeasonImportOwners(os, nextId, Tail(uniq))

\* `for (const location of uniqueLocations)`: add it unless its name exists
RECURSIVE SeasonImportLocations(_, _, _)
SeasonImportLocations(ls, nextId, uniq) ==
  IF uniq = <<>> THEN [locations |-> ls, nextLocationId |-> nextId]
  ELSE LET existingLocation == First({l \in ls : l.name = Head(uniq)})
       IN IF existingLocation = NoRow
          THEN SeasonImportLocations(
                 ls \cup {[id |-> nextId, name |-> Head(uniq), capacity |-> 50]},
                 nextId + 1, Tail(uniq))
          ELSE SeasonImportLocations(ls, nextId, Tail(uniq))

\* `for (const row of data)`: the horses. Every outcome the fallback ids allow
RECURSIVE SeasonImportHorses(_, _, _, _, _)
SeasonImportHorses(hs, nextId, newOwners, newLocations, data) ==
  IF data = <<>> THEN {[horses |-> hs, nextHorseId |-> nextId]}
  ELSE LET row == Head(data)
           owner == Find({o \in newOwners :
                            o.name = row.OwnerName /\ o.email = row.OwnerEmail})
           location == Find({l \in newLocations : l.name = row.LocationName})
           candidates == IF row.TrackingID # NoTrackingId THEN {row.TrackingID}
                         ELSE FallbackTrackingIds
       IN IF row.HorseName = ""
          THEN SeasonImportHorses(hs, nextId, newOwners, newLocations, Tail(data))
          ELSE UNION {
                 LET existingHorse == First({h \in hs : h.tracking_id = trackingId})
                 IN IF existingHorse = NoRow
                    THEN SeasonImportHorses(
                           hs \cup {[id |-> nextId, tracking_id |-> trackingId,
                                     owner_id |-> (IF owner.id # NoId THEN owner.id ELSE 1),
                                     status |-> "active",
                                     current_location_id |->
                                       (IF location.id # NoId THEN location.id ELSE 1),
                                     current_activity |-> "Stabled"]},
                           nextId + 1, newOwners, newLocations, Tail(data))
                    ELSE SeasonImportHorses(hs, nextId, newOwners, newLocations, Tail(data))
                 : trackingId \in candidates}

\* handleCSVImport with a file that carries the required columns
handleCSVImport(data) ==
  IF data = <<>>
  THEN /\ toast' = Toast("Import Error", "CSV file is empty")
       /\ UNCHANGED <<storeVars, mgmtVars, seasonVars, selVars, asyncVars, restVars, genVars, viewVars>>
  ELSE IF data[1].Season # selectedSeason
  THEN /\ toast' = Toast("Import Error", "CSV is for another season")
       /\ UNCHANGED <<storeVars, mgmtVars, seasonVars, selVars, asyncVars, restVars, genVars, viewVars>>
  ELSE IF data[1].Racetrack # selectedRacetrack
  THEN /\ toast' = Toast("Import Error", "CSV is for another racetrack")
       /\ UNCHANGED <<storeVars, mgmtVars, seasonVars, selVars, asyncVars, restVars, genVars, viewVars>>
  ELSE LET os == SeasonImportOwners(owners, nextOwnerId, uniqueOwners(data))
           ls == SeasonImportLocations(locations, nextLocationId, uniqueLocations(data))
       IN \E hs \in SeasonImportHorses(horses, nextHorseId, os.owners, ls.locations, data) :
            /\ os.nextOwnerId <= MaxOwnerId + 1
            /\ ls.nextLocationId <= MaxLocationId + 1
            /\ hs.nextHorseId <= MaxHorseId + 1
            /\ owners' = os.owners
            /\ nextOwnerId' = os.nextOwnerId
            /\ locations' = ls.locations
            /\ nextLocationId' = ls.nextLocationId
            /\ horses' = hs.horses
            /\ nextHorseId' = hs.nextHorseId
            /\ toast' = Toast("Import Complete", "Imported horses for the season")
            /\ UNCHANGED <<mgmtVars, seasonVars, selVars, asyncVars, restVars, genVars, viewVars>>

\* ------------------------------------------------------------ specification
\* ------------------------------------------------- session, filters, lists
\* the users initializeDatabase creates: admin, viewer and one user per owner
SeedUsers ==
  { [id |-> 1, username |-> "admin", email |-> "admin@delmar.com", role |-> "admin",
     password_hash |-> "admin123"],
    [id |-> 2, username |-> "viewer", email |-> "viewer@delmar.com", role |-> "viewer",
     password_hash |-> "viewer123"],
    [id |-> 3, username |-> "johnsmith", email |-> "john@smithracing.com",
     role |-> "owner", password_hash |-> "owner123"],
    [id |-> 4, username |-> "goldengate", email |-> "info@goldengatestables.com",
     role |-> "owner", password_hash |-> "owner123"] }

\* `localStorage.getItem` of a key that is not there, and `useState<User | null>(null)`
NoItem == <<"null">>
NoUser == [id |-> 0]

\* useUnifiedFilters: the initial value of useState filters
DefaultFilters ==
  [owner |-> "all", horse |-> "all", status |-> "all", location |-> "all",
   race |-> "all", searchTerm |-> ""]

\* number of browser tabs open on the store
MaxTabs == 2
Tabs == 1..MaxTabs
\* number of loadCommandData calls of one mounted command center
MaxCalls == 2
Calls == 1..MaxCalls

\* a tab that runs no horse-creating operation, a call that has not started
IdleOp == [kind |-> "none", pc |-> "idle", trackingId |-> NoTrackingId, attempts |-> 0]
IdleLoad == [pc |-> "idle", horses |-> {}, owners |-> {}, locations |-> {},
             assignments |-> {}]

\* no operation runs, no load is in flight
InitAsync ==
  /\ ops = [tab \in Tabs |-> IdleOp]
  /\ loads = [call \in Calls |-> IdleLoad]
  /\ finished = <<>>
  /\ isLoading = TRUE
  /\ seasonHorses = <<>>
  /\ selectedHorseIds = <<>>

\* ReportsPage: `useState<ReportData | null>(null)`
NoReport == [totalHorses |-> -1]

\* useUnifiedFilters: the initial value of useState filterData
EmptyFilterData ==
  [owners |-> <<>>, horses |-> <<>>, locations |-> <<>>, races |-> <<>>]

\* a page component that mounts gets a fresh useUnifiedFilters state; a reload
\* of the mounted page keeps the state it has
MountHook(route) ==
  IF page = route
  THEN UNCHANGED filterVars
  ELSE filters' = DefaultFilters /\ filterData' = EmptyFilterData

\* the state outside the store and its management component, before use
InitRest ==
  /\ users = SeedUsers
  /\ storedUser = NoItem
  /\ user = NoUser
  /\ authLoading = FALSE
  /\ filters = DefaultFilters
  /\ filterData = EmptyFilterData
  /\ pageHorses = <<>>
  /\ allHorses = <<>>
  /\ races = {}
  /\ race_participants = {}
  /\ pageRaces = <<>>
  /\ reportData = NoReport
  /\ InitAsync

Init ==
  /\ InitRest
  /\ owners = SeedOwners
  /\ horses = SeedHorseRows
  /\ locations = SeedLocations
  /\ nextOwnerId = 3
  /\ nextHorseId = SeedHorses + 1
  /\ nextLocationId = 2
  /\ mgmtHorses = {}
  /\ mgmtOwners = {}
  /\ loadPending = TRUE
  /\ selectedSeason = "2024"
  /\ selectedRacetrack = "Del Mar"
  /\ toast = NoToast
  /\ attempts = 0
  /\ genTrackingId = NoTrackingId
  /\ genState = "returned"
  /\ location_assignments = {}
  /\ horseStatuses = <<>>
  /\ problemHorses = <<>>
  /\ gridHorses = <<>>
  /\ horsesWithLocations = <<>>
  /\ page = ""

AddOwner == \E name \in OwnerNames \cup {""}, email \in OwnerEmails \cup {""} : addOwner(name, email)
AddHorse == \E ownerId \in Ids(mgmtOwners) \cup {NoId} : addHorse(ownerId)
DeleteSelectedHorses == \E selectedHorses \in SUBSET Ids(mgmtHorses) : deleteSelectedHorses(selectedHorses)
DeleteSelectedOwners == \E selectedOwners \in SUBSET Ids(mgmtOwners) : deleteSelectedOwners(selectedOwners)
HandleBulkImport == \E data \in Files(BulkRows) : handleBulkImport(data)
\* `x || ''` of an optional column, as Papa.unparse writes and Papa.parse reads it
CsvField(value) == IF value = NULL THEN "" ELSE value

\* generateCSVExport: one row per horse of the page's lists (the columns the
\* import reads), in list order
generateCSVExport(hs, os, ls) ==
  LET rows == ToArray(hs)
  IN [i \in 1..Len(rows) |->
        LET horse == rows[i]
            owner == Find({o \in os : o.id = horse.owner_id})
            location == Find({l \in ls : l.id = horse.current_location_id})
        IN [Season |-> selectedSeason, Racetrack |-> selectedRacetrack,
            HorseName |-> "Horse",
            OwnerName |-> IF owner # NoRow THEN CsvField(owner.name) ELSE "",
            OwnerEmail |-> IF owner # NoRow THEN CsvField(owner.email) ELSE "",
            TrackingID |-> horse.tracking_id,
            LocationName |-> IF location # NoRow THEN CsvField(location.name) ELSE ""]]

\* the export button, then the import of the downloaded file. The page's lists
\* are those its loadData read on mount and after its last write: the store's
ExportThenImport == handleCSVImport(generateCSVExport(horses, owners, locations))

HandleCSVImport == \E data \in Files(SeasonRows) : handleCSVImport(data)

Next ==
  \/ ExportThenImport
  \/ LoadData
  \/ AddOwner
  \/ AddHorse
  \/ DeleteSelectedHorses
  \/ DeleteSelectedOwners
  \/ HandleBulkImport
  \/ HandleCSVImport

Spec == Init /\ [][Next]_vars

\* ------------------------------------------------------------------ claims
OwnerIdRange == 1..(MaxOwnerId + 1)

\* C1: deleteSelectedOwners keeps a selected owner's row if and only if some
\* horse row of the store has that owner's id when the call is made; a selected
\* owner without horses is removed.
C1_DeleteOwnerIffReferenced ==
  [][\A selectedOwners \in SUBSET OwnerIdRange :
       deleteSelectedOwners(selectedOwners) =>
         \A o \in selectedOwners :
           (o \in Ids(owners')) <=> (\E horse \in horses : horse.owner_id = o)]_vars

\* C2: every horse row's owner_id is the id of an owner row, in every state.
C2_ReferentialIntegrity ==
  \A horse \in horses : horse.owner_id \in Ids(owners)

\* C3: no two horse rows carry the same tracking_id.
C3_TrackingIdUnique ==
  \A h1 \in horses : \A h2 \in horses :
    h1.tracking_id = h2.tracking_id => h1.id = h2.id

\* a horse row that one of the creating operations inserted, next to the seeded ones
C3_Witness ==
  /\ \E horse \in horses : horse.id > SeedHorses
  /\ \E horse \in horses : horse.id <= SeedHorses
  /\ toast.title \in {"Success", "Import Complete"}

EmailUnique ==
  \A o1 \in owners : \A o2 \in owners : o1.email = o2.email => o1.id = o2.id

\* C4: no two owner rows carry the same email, and an addOwner call whose email
\* is already in the table adds no row.
C4_OwnerEmailUnique ==
  /\ []EmailUnique
  /\ [][\A name \in OwnerNames, email \in OwnerEmails :
          (addOwner(name, email) /\ \E o \in owners : o.email = email)
            => owners' = owners]_vars

\* addOwner has just refused an email that the table holds
C4_Witness ==
  /\ toast = Toast("Validation Error", "Email address already exists")
  /\ Cardinality(owners) > Cardinality(SeedOwners)

\* ------------------------------------------------ generateTrackingId, stepwise
\* horse tables the generator is run against: the ids of T are taken
TakenTables ==
  { { [id |-> n, tracking_id |-> DM(n), owner_id |-> 1, status |-> "active",
       current_location_id |-> NoId, current_activity |-> NULL] : n \in T }
    : T \in SUBSET (1..MaxRandom) }

InitGenerate ==
  /\ InitRest
  /\ owners = SeedOwners
  /\ horses \in TakenTables
  /\ locations = SeedLocations
  /\ nextOwnerId = 3
  /\ nextHorseId = MaxRandom + 1
  /\ nextLocationId = 2
  /\ mgmtHorses = {}
  /\ mgmtOwners = {}
  /\ loadPending = FALSE
  /\ selectedSeason = "2024"
  /\ selectedRacetrack = "Del Mar"
  /\ toast = NoToast
  /\ attempts = 0
  /\ genTrackingId = NoTrackingId
  /\ genState = "running"
  /\ location_assignments = {}
  /\ horseStatuses = <<>>
  /\ problemHorses = <<>>
  /\ gridHorses = <<>>
  /\ horsesWithLocations = <<>>
  /\ page = ""

\* one pass of the do-while body; randomNum is Math.floor(Math.random() * 9999) + 1
GenerateAttempt(randomNum) ==
  /\ genState = "running"
  /\ attempts' = attempts + 1
  /\ genTrackingId' = DM(randomNum)
  /\ LET existing == First({h \in horses : h.tracking_id = DM(randomNum)})
     IN genState' = IF existing = NoRow THEN "returned"
                    ELSE IF attempts + 1 > MaxAttempts THEN "thrown"
                    ELSE "running"
  /\ UNCHANGED <<storeVars, mgmtVars, seasonVars, selVars, asyncVars, restVars, viewVars, toast>>

NextGenerate == \E randomNum \in 1..MaxRandom : GenerateAttempt(randomNum)

SpecGenerate == InitGenerate /\ [][NextGenerate]_vars

\* C5: generateTrackingId ends after at most 100 lookups: it returns an id that no
\* horse row held at its lookup, or fails once 100 attempts collided; it never
\* makes a 101st lookup (each attempt makes one lookup).
C5_AtMostHundredLookups ==
  /\ attempts <= MaxAttempts
  /\ genState = "returned" =>
       ~\E h \in horses : h.tracking_id = genTrackingId
  /\ genState = "thrown" => attempts = MaxAttempts

\* the stepwise generator ends only in outcomes of GenerateTrackingId
GenerateAgrees ==
  /\ genState = "returned" => genTrackingId \in GenerateTrackingId(horses)
  /\ genState = "thrown" => Throw \in GenerateTrackingId(horses)
  /\ attempts <= MaxAttempts + 1

\* ------------------------------------------------------------------- views
\* longest location_assignments table the views are run against
MaxAssignments == 2
\* capacity of the location the assignments point to
ViewCapacity == 1
\* `new Date()` at the load, and an absent assigned_until
Now == 2
NoDate == 0

Statuses == {"active", "inactive", "injured", "retired"}
\* current_activity values of the command center, problems view and data grid
ViewActivities == {NULL, "walking", "racing"}
\* current_activity values of the location map
MapActivities ==
  {NULL, "", "racing", "training", "walking", "medical", "transport",
   "resting", "Stabled", "Racing"}

\* location_assignments rows: of the horse shown (1) or another horse (2), to the
\* location of the table (1) or to a location that has no row (2)
AssignmentRows ==
  [horse_id : {1, 2}, location_id : {1, 2}, assigned_at : {1, 2},
   assigned_until : {NoDate, 1, 3}]

AssignmentTables ==
  UNION { { {[id |-> i, horse_id |-> f[i].horse_id, location_id |-> f[i].location_id,
              assigned_at |-> f[i].assigned_at, assigned_until |-> f[i].assigned_until]
             : i \in 1..n}
            : f \in [1..n -> AssignmentRows] }
          : n \in 0..MaxAssignments }

\* the one-row horses tables the views are run against
ViewHorseTables(activities) ==
  { { [id |-> 1, tracking_id |-> DM(1), owner_id |-> 1, status |-> st,
       current_location_id |-> NoId, current_activity |-> act] }
    : st \in Statuses, act \in activities }

\* `assignments.find(a => a.horse_id === horse.id)`
FindAssignment(assignments, horse) ==
  Find({a \in assignments : a.horse_id = horse.id})

\* `assignment ? locations.find(l => l.id === assignment.location_id) : undefined`
FindLocation(ls, assignment) ==
  IF assignment # NoRow THEN Find({l \in ls : l.id = assignment.location_id}) ELSE NoRow

\* LocationMap: filter on horse and expiry, sort by assigned_at descending, take [0]
\* (the sort is stable: rows with equal assigned_at keep the table order)
CurrentAssignment(assignments, horse, now) ==
  LET current == {a \in assignments :
                    /\ a.horse_id = horse.id
                    /\ (a.assigned_until = NoDate \/ a.assigned_until > now)}
      latest == {a \in current : \A b \in current : b.assigned_at <= a.assigned_at}
  IN First(latest)

\* `horse.current_activity || 'Assigned'`
ActivityOr(activity, default) ==
  IF activity = NULL \/ activity = "" THEN default ELSE activity

\* a rule order that lets an assigned location win over an injury
deriveAlertLocationFirst(horse, assignment, location) ==
  IF assignment # NoRow /\ location # NoRow
  THEN [status |-> "green",
        statusText |-> "In " \o location.name \o " - "
                         \o ActivityOr(horse.current_activity, "Assigned")]
  ELSE IF horse.status = "inactive" \/ horse.status = "retired"
  THEN [status |-> "grey",
        statusText |-> IF horse.status = "inactive" THEN "Inactive" ELSE "Retired"]
  ELSE IF horse.status = "injured"
  THEN [status |-> "red", statusText |-> "Injured - Medical Attention Required"]
  ELSE IF horse.current_activity = "walking" /\ assignment = NoRow
  THEN [status |-> "yellow", statusText |-> "Walking - No Location Assigned"]
  ELSE IF assignment = NoRow
  THEN [status |-> "red", statusText |-> "No Location Assignment"]
  ELSE [status |-> "yellow", statusText |-> "Location Assignment Issue"]

\* a rule order that tests the missing assignment before the walking horse
deriveAlertNoAssignmentFirst(horse, assignment, location) ==
  IF horse.status = "inactive" \/ horse.status = "retired"
  THEN [status |-> "grey",
        statusText |-> IF horse.status = "inactive" THEN "Inactive" ELSE "Retired"]
  ELSE IF horse.status = "injured"
  THEN [status |-> "red", statusText |-> "Injured - Medical Attention Required"]
  ELSE IF assignment = NoRow
  THEN [status |-> "red", statusText |-> "No Location Assignment"]
  ELSE IF horse.current_activity = "walking" /\ assignment = NoRow
  THEN [status |-> "yellow", statusText |-> "Walking - No Location Assigned"]
  ELSE IF assignment # NoRow /\ location # NoRow
  THEN [status |-> "green",
        statusText |-> "In " \o location.name \o " - "
                         \o ActivityOr(horse.current_activity, "Assigned")]
  ELSE [status |-> "yellow", statusText |-> "Location Assignment Issue"]

\* CommandCenter: the if/else-if chain on status and statusText
deriveAlert(horse, assignment, location) ==
  IF horse.status = "inactive" \/ horse.status = "retired"
  THEN [status |-> "grey",
        statusText |-> IF horse.status = "inactive" THEN "Inactive" ELSE "Retired"]
  ELSE IF horse.status = "injured"
  THEN [status |-> "red", statusText |-> "Injured - Medical Attention Required"]
  ELSE IF horse.current_activity = "walking" /\ assignment = NoRow
  THEN [status |-> "yellow", statusText |-> "Walking - No Location Assigned"]
  ELSE IF assignment # NoRow /\ location # NoRow
  THEN [status |-> "green",
        statusText |-> "In " \o location.name \o " - "
                         \o ActivityOr(horse.current_activity, "Assigned")]
  ELSE IF assignment = NoRow
  THEN [status |-> "red", statusText |-> "No Location Assignment"]
  ELSE [status |-> "yellow", statusText |-> "Location Assignment Issue"]

\* CommandCenter: one element of `horses.map(horse => ...)`
CommandStatus(horse, os, ls, assignments) ==
  LET owner == Find({o \in os : o.id = horse.owner_id})
      assignment == FindAssignment(assignments, horse)
      location == FindLocation(ls, assignment)
      alert == deriveAlert(horse, assignment, location)
  IN [horse |-> horse, owner |-> owner, location |-> location,
      assignment |-> assignment, status |-> alert.status,
      statusText |-> alert.statusText]

\* CommandCenter: `horses.map(horse => ...)` over the four tables read
CommandStatuses(hs, os, ls, assignments) ==
  LET rows == ToArray(hs)
  IN [i \in 1..Len(rows) |-> CommandStatus(rows[i], os, ls, assignments)]

\* loadCommandData: the four reads, the map, setHorseStatuses. Mounting the
\* page unmounts the page shown before (its state is dropped)
loadCommandData ==
  /\ horseStatuses' = CommandStatuses(horses, owners, locations, location_assignments)
  /\ problemHorses' = <<>>
  /\ gridHorses' = <<>>
  /\ horsesWithLocations' = <<>>
  /\ page' = "/command"
  /\ MountHook("/command")
  /\ isLoading' = FALSE
  /\ UNCHANGED <<storeVars, mgmtVars, seasonVars, selVars, ops, loads, finished, authVars, listVars, genVars, toast,
                 location_assignments>>

\* a count that leaves out the rows whose assigned_until has passed
assignmentsInLocationCurrent(assignments, location) ==
  {a \in assignments :
     /\ a.location_id = location.id
     /\ (a.assigned_until = NoDate \/ a.assigned_until > Now)}

\* ProblemsView: `assignments.filter(a => a.location_id === location.id)`
assignmentsInLocation(assignments, location) ==
  {a \in assignments : a.location_id = location.id}

\* ProblemsView: the entries one pass of `horses.forEach(horse => ...)` pushes
ProblemsOf(horse, os, ls, assignments) ==
  LET owner == Find({o \in os : o.id = horse.owner_id})
      assignment == FindAssignment(assignments, horse)
      location == FindLocation(ls, assignment)
      Problem(severity, text) ==
        [horse |-> horse, owner |-> owner, location |-> location,
         assignment |-> assignment, problem |-> severity, problemText |-> text]
      critical ==
        IF horse.status = "injured" THEN <<Problem("critical", "Horse Injured")>>
        ELSE IF assignment = NoRow /\ horse.status = "active"
        THEN <<Problem("critical", "No Location Assignment")>>
        ELSE <<>>
      walking ==
        IF horse.current_activity = "walking" /\ assignment = NoRow
        THEN <<Problem("warning", "Walking Without Location")>>
        ELSE <<>>
      capacity ==
        IF assignment # NoRow /\ location # NoRow
        THEN IF Cardinality(assignmentsInLocation(assignments, location)) > location.capacity
             THEN <<Problem("warning", "Location Over Capacity")>>
             ELSE <<>>
        ELSE <<>>
  IN critical \o walking \o capacity

RECURSIVE ProblemsOfAll(_, _, _, _)
ProblemsOfAll(rows, os, ls, assignments) ==
  IF rows = <<>> THEN <<>>
  ELSE ProblemsOf(Head(rows), os, ls, assignments)
         \o ProblemsOfAll(Tail(rows), os, ls, assignments)

\* loadProblemsData: the four reads, the forEach, setProblemHorses
loadProblemsData ==
  /\ problemHorses' = ProblemsOfAll(ToArray(horses), owners, locations, location_assignments)
  /\ horseStatuses' = <<>>
  /\ gridHorses' = <<>>
  /\ horsesWithLocations' = <<>>
  /\ page' = "/problems"
  /\ MountHook("/problems")
  /\ isLoading' = FALSE
  /\ UNCHANGED <<storeVars, mgmtVars, seasonVars, selVars, ops, loads, finished, authVars, listVars, genVars, toast,
                 location_assignments>>

\* DataGridPage: one element of `horsesData.map(horse => ...)`
GridRow(horse, os, ls, assignments) ==
  LET owner == Find({o \in os : o.id = horse.owner_id})
      assignment == FindAssignment(assignments, horse)
      location == FindLocation(ls, assignment)
  IN [horse |-> horse,
      ownerName |-> IF owner # NoRow THEN owner.name ELSE "Unknown",
      locationName |-> IF location # NoRow THEN location.name ELSE "Unassigned"]

\* loadGridData: the four reads, the map, setHorses
loadGridData ==
  /\ gridHorses' =
       LET rows == ToArray(horses)
       IN [i \in 1..Len(rows) |->
             GridRow(rows[i], owners, locations, location_assignments)]
  /\ horseStatuses' = <<>>
  /\ problemHorses' = <<>>
  /\ horsesWithLocations' = <<>>
  /\ page' = "/data-grid"
  /\ MountHook("/data-grid")
  /\ isLoading' = FALSE
  /\ selectedHorseIds' = IF page = "/data-grid" THEN selectedHorseIds ELSE <<>>
  /\ UNCHANGED <<storeVars, mgmtVars, seasonVars, race_participants, seasonHorses, ops, loads, finished, authVars, listVars, genVars, toast,
                 location_assignments>>

\* a switch whose default keeps the activity
locationStatusKeepsActivity(current_activity) ==
  IF current_activity # NULL /\ current_activity # "" THEN current_activity ELSE "stalled"

\* LocationMap: `if (horse.current_activity) switch (horse.current_activity)`
locationStatus(current_activity) ==
  IF current_activity # NULL /\ current_activity # ""
  THEN CASE current_activity = "racing" -> "racing"
         [] current_activity = "training" -> "training"
         [] current_activity = "walking" -> "walking"
         [] current_activity = "medical" -> "medical"
         [] current_activity = "transport" -> "transport"
         [] OTHER -> "stalled"
  ELSE "stalled"

\* LocationMap: one element of `horsesData.map(horse => ...)`
HorseLocation(horse, os, ls, assignments) ==
  LET owner == Find({o \in os : o.id = horse.owner_id})
      currentAssignment == CurrentAssignment(assignments, horse, Now)
      location == FindLocation(ls, currentAssignment)
  IN [horse |-> horse, owner |-> owner, location |-> location,
      currentAssignment |-> currentAssignment,
      stallNumber |-> IF currentAssignment # NoRow
                      THEN <<IF location # NoRow THEN location.name ELSE NULL,
                             currentAssignment.id>>
                      ELSE <<>>,
      locationStatus |-> locationStatus(horse.current_activity)]

\* LocationMap.loadData: the four reads of one Promise.all, the map, the setters
LocationMapLoadData ==
  /\ horsesWithLocations' =
       LET rows == ToArray(horses)
       IN [i \in 1..Len(rows) |->
             HorseLocation(rows[i], owners, locations, location_assignments)]
  /\ horseStatuses' = <<>>
  /\ problemHorses' = <<>>
  /\ gridHorses' = <<>>
  /\ page' = "LocationMap"
  /\ isLoading' = FALSE
  /\ UNCHANGED <<storeVars, mgmtVars, seasonVars, selVars, ops, loads, finished, restVars, genVars, toast, location_assignments>>

\* the tables of a view run: one horse, the seeded owners, one location
InitTables(activities) ==
  /\ InitRest
  /\ owners = SeedOwners
  /\ horses \in ViewHorseTables(activities)
  /\ locations = {[id |-> 1, name |-> "Barn A", capacity |-> ViewCapacity]}
  /\ location_assignments \in AssignmentTables
  /\ nextOwnerId = 3
  /\ nextHorseId = 2
  /\ nextLocationId = 2
  /\ mgmtHorses = {}
  /\ mgmtOwners = {}
  /\ loadPending = FALSE
  /\ selectedSeason = "2024"
  /\ selectedRacetrack = "Del Mar"
  /\ toast = NoToast
  /\ attempts = 0
  /\ genTrackingId = NoTrackingId
  /\ genState = "returned"
  /\ horseStatuses = <<>>
  /\ problemHorses = <<>>
  /\ gridHorses = <<>>
  /\ horsesWithLocations = <<>>
  /\ page = ""

InitView == InitTables(ViewActivities)
NextView ==
  \/ loadCommandData
  \/ loadProblemsData
  \/ loadGridData
SpecView == InitView /\ [][NextView]_vars

InitMap == InitTables(MapActivities)
NextMap == LocationMapLoadData
SpecMap == InitMap /\ [][NextMap]_vars

\* ----------------------------------------------------------- claims (views)
Shown(list) == {list[i] : i \in DOMAIN list}

\* C6: the assignment the command center, the problems view and the data grid
\* resolve for a horse is the row LocationMap selects: the unexpired row of the
\* horse with the latest assigned_at, or none when all its rows are expired.
C6_ResolvesCurrentAssignment ==
  /\ \A e \in Shown(horseStatuses) :
       e.assignment = CurrentAssignment(location_assignments, e.horse, Now)
  /\ \A e \in Shown(problemHorses) :
       e.assignment = CurrentAssignment(location_assignments, e.horse, Now)
  /\ \A e \in Shown(gridHorses) :
       LET location == FindLocation(locations,
                         CurrentAssignment(location_assignments, e.horse, Now))
       IN e.locationName = IF location # NoRow THEN location.name ELSE "Unassigned"

\* C7: the alert of every horse shown by the command center is the one of the
\* ordered six-rule table, for each status, activity, resolved assignment and
\* resolved location; the last rule is the case of an assignment without location.
C7_AlertIsRuleTable ==
  \A e \in Shown(horseStatuses) :
    LET st == e.horse.status
        walking == e.horse.current_activity = "walking"
        assigned == e.assignment # NoRow
        located == e.location # NoRow
        alerted == st \notin {"inactive", "retired", "injured"}
    IN /\ e.status \in {"green", "yellow", "red", "grey"}
       /\ st \in {"inactive", "retired"} => e.status = "grey"
       /\ st = "injured" => e.status = "red"
       /\ (alerted /\ walking /\ ~assigned) =>
            (e.status = "yellow" /\ e.statusText = "Walking - No Location Assigned")
       /\ (alerted /\ assigned /\ located) => e.status = "green"
       /\ (alerted /\ ~walking /\ ~assigned) =>
            (e.status = "red" /\ e.statusText = "No Location Assignment")
       /\ (alerted /\ assigned /\ ~located) =>
            (e.status = "yellow" /\ e.statusText = "Location Assignment Issue")
       /\ e.statusText = "Location Assignment Issue" => (assigned /\ ~located)

\* an assignment whose location has no row: the last rule has fired
C7_Witness ==
  \E e \in Shown(horseStatuses) :
    /\ e.statusText = "Location Assignment Issue"
    /\ e.assignment # NoRow
    /\ e.location = NoRow

\* C8: an injured horse is shown red, "Injured - Medical Attention Required",
\* whatever its activity, assignment rows and location rows are.
C8_InjuredIsRed ==
  \A e \in Shown(horseStatuses) :
    e.horse.status = "injured" =>
      (e.status = "red" /\ e.statusText = "Injured - Medical Attention Required")

\* an injured horse with an unexpired assignment to a location that exists
C8_Witness ==
  \E e \in Shown(horseStatuses) :
    /\ e.horse.status = "injured"
    /\ e.assignment # NoRow
    /\ e.assignment = CurrentAssignment(location_assignments, e.horse, Now)
    /\ e.location # NoRow
    /\ e.status = "red"

\* the (severity, text) pairs the four rules give a horse
ExpectedProblems(horse) ==
  LET assignment == FindAssignment(location_assignments, horse)
      location == FindLocation(locations, assignment)
  IN (IF horse.status = "injured" THEN {<<"critical", "Horse Injured">>} ELSE {})
     \cup (IF horse.status = "active" /\ assignment = NoRow
           THEN {<<"critical", "No Location Assignment">>} ELSE {})
     \cup (IF horse.current_activity = "walking" /\ assignment = NoRow
           THEN {<<"warning", "Walking Without Location">>} ELSE {})
     \cup (IF /\ assignment # NoRow
              /\ location # NoRow
              /\ Cardinality({a \in location_assignments : a.location_id = location.id})
                   > location.capacity
           THEN {<<"warning", "Location Over Capacity">>} ELSE {})

\* C9: the problems view emits for every horse exactly the entries of the four
\* rules, each once; the over-capacity rule counts every location_assignments
\* row of the location, expired or not, of any horse.
C9_ProblemsAreFourRules ==
  page = "/problems" =>
    \A horse \in horses :
      LET mine == {i \in DOMAIN problemHorses : problemHorses[i].horse = horse}
      IN /\ {<<problemHorses[i].problem, problemHorses[i].problemText>> : i \in mine}
              = ExpectedProblems(horse)
         /\ Cardinality(mine) = Cardinality(ExpectedProblems(horse))

\* over capacity only because an expired row of another horse is counted
C9_Witness ==
  /\ page = "/problems"
  /\ \E e \in Shown(problemHorses) :
       /\ e.problemText = "Location Over Capacity"
       /\ \E a \in location_assignments :
            /\ a.location_id = e.location.id
            /\ a.horse_id # e.horse.id
            /\ a.assigned_until # NoDate
            /\ a.assigned_until < Now

UpperCase == "ABCDEFGHIJKLMNOPQRSTUVWXYZ"
LowerCase == "abcdefghijklmnopqrstuvwxyz"

\* String.prototype.toLowerCase, on one character and on a string
LowerChar(c) ==
  IF \E i \in 1..Len(UpperCase) : SubSeq(UpperCase, i, i) = c
  THEN LET i == CHOOSE i \in 1..Len(UpperCase) : SubSeq(UpperCase, i, i) = c
       IN SubSeq(LowerCase, i, i)
  ELSE c

\* a conversion that keeps the letter case
toLowerCaseKeepsCase(str) == str

RECURSIVE toLowerCase(_)
toLowerCase(str) ==
  IF str = "" THEN ""
  ELSE LowerChar(SubSeq(str, 1, 1)) \o toLowerCase(SubSeq(str, 2, Len(str)))

\* String.prototype.includes
includes(str, searchString) ==
  \/ searchString = ""
  \/ \E i \in 1..(Len(str) - Len(searchString) + 1) :
       SubSeq(str, i, i + Len(searchString) - 1) = searchString

\* `.filter(Boolean)` on an array of optional strings
FilterBoolean(fields) == SelectSeq(fields, LAMBDA field : field # NULL /\ field # "")

\* `.join(' ')`: undefined elements are joined as empty strings
RECURSIVE join(_)
join(fields) ==
  IF fields = <<>> THEN ""
  ELSE LET head == IF Head(fields) = NULL THEN "" ELSE Head(fields)
       IN IF Len(fields) = 1 THEN head ELSE head \o " " \o join(Tail(fields))

\* parseInt of a select value: the id it was made from, NaN for 'all'
NaN == -1
parseInt(str) ==
  IF \E n \in 0..9 : ToString(n) = str
  THEN CHOOSE n \in 0..9 : ToString(n) = str
  ELSE NaN

\* `{...horse, owner}`: the horse record with its owner attached
WithOwner(horse, owner) ==
  [field \in DOMAIN horse \cup {"owner"} |->
     IF field = "owner" THEN owner ELSE horse[field]]

\* `horse.owner?.name`
OwnerNameOf(horse) ==
  IF "owner" \in DOMAIN horse
  THEN IF horse.owner # NoRow THEN horse.owner.name ELSE NULL
  ELSE NULL

\* a filter that admits a horse as soon as one active field matches
filterFunctionsHorsesAny(horse, f) ==
  \/ f.owner = "all" /\ f.status = "all" /\ f.searchTerm = ""
  \/ f.owner # "all" /\ horse.owner_id = parseInt(f.owner)
  \/ f.status # "all" /\ horse.status = f.status
  \/ /\ f.searchTerm # ""
     /\ includes(toLowerCase(join(FilterBoolean(
                    <<horse.name, horse.tracking_id, horse.registration_number,
                      horse.breed, horse.color, OwnerNameOf(horse)>>))),
                 toLowerCase(f.searchTerm))

\* filterFunctions.horses (its third parameter, filterData, is never read)
filterFunctionsHorses(horse, f) ==
  IF f.owner # "all" /\ horse.owner_id # parseInt(f.owner) THEN FALSE
  ELSE IF f.status # "all" /\ horse.status # f.status THEN FALSE
  ELSE IF f.searchTerm # ""
  THEN LET searchLower == toLowerCase(f.searchTerm)
           searchFields ==
             toLowerCase(join(FilterBoolean(
               <<horse.name, horse.tracking_id, horse.registration_number,
                 horse.breed, horse.color, OwnerNameOf(horse)>>)))
       IN includes(searchFields, searchLower)
  ELSE TRUE

\* a races filter without the status comparison
filterFunctionsRacesAnyStatus(race, f) ==
  IF f.searchTerm # ""
  THEN LET searchLower == toLowerCase(f.searchTerm)
           searchFields == toLowerCase(join(<<race.name, race.track, race.race_type>>))
       IN includes(searchFields, searchLower)
  ELSE TRUE

\* filterFunctions.races
filterFunctionsRaces(race, f) ==
  IF f.status # "all" /\ race.status # f.status THEN FALSE
  ELSE IF f.searchTerm # ""
  THEN LET searchLower == toLowerCase(f.searchTerm)
           searchFields == toLowerCase(join(<<race.name, race.track, race.race_type>>))
       IN includes(searchFields, searchLower)
  ELSE TRUE

\* filterFunctions.owners
filterFunctionsOwners(owner, f) ==
  IF f.searchTerm # ""
  THEN LET searchLower == toLowerCase(f.searchTerm)
           searchFields ==
             toLowerCase(join(FilterBoolean(
               <<owner.name, owner.email, owner.phone, owner.address>>)))
       IN includes(searchFields, searchLower)
  ELSE TRUE

\* CommandCenter: `filterFunctions.horses(status.horse, filters, filterData)`,
\* where status.horse is the horse with its owner
CommandFilter(status, f) == filterFunctionsHorses(WithOwner(status.horse, status.owner), f)

\* the callbacks the pages pass to getFilteredData: a member of the exported
\* `filterFunctions`, the command center's wrapper of filterFunctions.horses, or
\* the data grid's, whose rows keep the spread horse under `horse`
filterFunctions(filterFn, item, f) ==
  CASE filterFn = "horses" -> filterFunctionsHorses(item, f)
    [] filterFn = "races" -> filterFunctionsRaces(item, f)
    [] filterFn = "owners" -> filterFunctionsOwners(item, f)
    [] filterFn = "status.horse" -> CommandFilter(item, f)
    [] filterFn = "grid.horse" -> filterFunctionsHorses(item.horse, f)

\* getFilteredData: `data.filter(item => filterFn(item, filters, filterData))`
getFilteredData(data, filterFn, f) ==
  SelectSeq(data, LAMBDA item : filterFunctions(filterFn, item, f))

\* updateFilter: `setFilters(prev => ({ ...prev, [key]: value }))`
updateFilter(key, value) ==
  /\ filters' = [filters EXCEPT ![key] = value]
  /\ UNCHANGED <<storeVars, mgmtVars, seasonVars, selVars, asyncVars, genVars, viewVars, toast,
                 authVars, filterData, listVars>>

\* a reset that leaves the search box as it is
clearFiltersKeepsSearch ==
  /\ filters' = [DefaultFilters EXCEPT !.searchTerm = filters.searchTerm]
  /\ UNCHANGED <<storeVars, mgmtVars, seasonVars, selVars, asyncVars, genVars, viewVars, toast,
                 authVars, filterData, listVars>>

\* clearFilters: one setFilters with the six sentinels
clearFilters ==
  /\ filters' = DefaultFilters
  /\ UNCHANGED <<storeVars, mgmtVars, seasonVars, selVars, asyncVars, genVars, viewVars, toast,
                 authVars, filterData, listVars>>

\* ------------------------------------------------- pages that list horses
\* HorsesPage / Dashboard: the horses read for the role of the logged-in user
VisibleHorses(u, hs, os) ==
  IF u # NoUser /\ u.role \in {"admin", "viewer"} THEN ToArray(hs)
  ELSE IF u # NoUser /\ u.role = "owner"
  THEN LET owner == First({o \in os : o.email = u.email})
       IN IF owner # NoRow THEN ToArray({h \in hs : h.owner_id = owner.id}) ELSE <<>>
  ELSE <<>>

\* `horsesData.map(horse => ({...horse, owner: owners.find(...)}))`
horsesWithOwners(rows, os) ==
  [i \in 1..Len(rows) |-> WithOwner(rows[i], Find({o \in os : o.id = rows[i].owner_id}))]

\* the lists of the pages that are not mounted
DropViews == 
  /\ horseStatuses' = <<>>
  /\ problemHorses' = <<>>
  /\ gridHorses' = <<>>
  /\ horsesWithLocations' = <<>>

\* HorsesPage.loadHorses, run on mount and when the user changes
loadHorses ==
  /\ pageHorses' = horsesWithOwners(VisibleHorses(user, horses, owners), owners)
  /\ allHorses' = <<>>
  /\ pageRaces' = <<>>
  /\ reportData' = NoReport
  /\ DropViews
  /\ page' = "/horses"
  /\ MountHook("/horses")
  /\ isLoading' = FALSE
  /\ UNCHANGED <<storeVars, mgmtVars, seasonVars, selVars, ops, loads, finished, genVars, toast, authVars,
                 location_assignments, races>>

\* Dashboard.loadDashboardData, run on mount and when the user changes
loadDashboardData ==
  /\ allHorses' = horsesWithOwners(VisibleHorses(user, horses, owners), owners)
  /\ pageHorses' = <<>>
  /\ pageRaces' = <<>>
  /\ reportData' = NoReport
  /\ DropViews
  /\ page' = "/"
  /\ MountHook("/")
  /\ isLoading' = FALSE
  /\ UNCHANGED <<storeVars, mgmtVars, seasonVars, selVars, ops, loads, finished, genVars, toast, authVars,
                 location_assignments, races>>

\* `racesWithParticipants.sort((a, b) => a.race_date - b.race_date)`: stable
RECURSIVE SortByRaceDate(_)
SortByRaceDate(rows) ==
  IF rows = <<>> THEN <<>>
  ELSE LET last == rows[Len(rows)]
           sorted == SortByRaceDate(SubSeq(rows, 1, Len(rows) - 1))
           before == SelectSeq(sorted, LAMBDA r : r.race_date <= last.race_date)
           after == SelectSeq(sorted, LAMBDA r : r.race_date > last.race_date)
       IN before \o <<last>> \o after

\* RacesPage.loadRaces: `participants.filter(p => p.race_id === race.id)` joined
\* with `horses.find(h => h.id === participant.horse_id)`
RaceWithParticipants(race, participants, hs) ==
  LET raceParticipants == SelectSeq(ToArray(participants), LAMBDA p : p.race_id = race.id)
  IN [id |-> race.id, name |-> race.name, race_date |-> race.race_date,
      track |-> race.track, race_type |-> race.race_type, status |-> race.status,
      participants |->
        [i \in 1..Len(raceParticipants) |->
           [id |-> raceParticipants[i].id, race_id |-> raceParticipants[i].race_id,
            horse_id |-> raceParticipants[i].horse_id,
            horse |-> Find({h \in hs : h.id = raceParticipants[i].horse_id})]],
      participantCount |-> Len(raceParticipants)]

\* RacesPage.loadRaces
loadRaces ==
  /\ pageRaces' =
       LET racesData == ToArray(races)
       IN SortByRaceDate([i \in 1..Len(racesData) |->
                            RaceWithParticipants(racesData[i], race_participants, horses)])
  /\ pageHorses' = <<>>
  /\ allHorses' = <<>>
  /\ reportData' = NoReport
  /\ DropViews
  /\ page' = "/races"
  /\ MountHook("/races")
  /\ isLoading' = FALSE
  /\ UNCHANGED <<storeVars, mgmtVars, seasonVars, selVars, ops, loads, finished, genVars, toast, authVars,
                 location_assignments, races>>

\* ReportsPage.loadReportData, run on mount and when the user changes: the
\* figures taken from the horses read for the role of the logged-in user
loadReportData ==
  /\ LET rows == VisibleHorses(user, horses, owners)
         count(status) == Len(SelectSeq(rows, LAMBDA h : h.status = status))
     IN reportData' = [totalHorses |-> Len(rows),
                       activeHorses |-> count("active"),
                       horsesByStatus |-> <<count("active"), count("inactive"),
                                            count("injured"), count("retired")>>]
  /\ pageHorses' = <<>>
  /\ allHorses' = <<>>
  /\ pageRaces' = <<>>
  /\ DropViews
  /\ page' = "/reports"
  /\ MountHook("/reports")
  /\ isLoading' = FALSE
  /\ UNCHANGED <<storeVars, mgmtVars, seasonVars, selVars, ops, loads, finished, genVars, toast, authVars,
                 location_assignments, races>>

\* useUnifiedFilters.loadFilterData: the effect of the mounted page's hook
loadFilterData ==
  /\ page # ""
  /\ filterData' = [owners |-> ToArray(owners), horses |-> ToArray(horses),
                    locations |-> ToArray(locations), races |-> ToArray(races)]
  /\ UNCHANGED <<storeVars, mgmtVars, seasonVars, selVars, asyncVars, genVars, viewVars, toast,
                 authVars, filters, listVars>>

\* ------------------------------------------- specification of the filters
\* the horses tables the filters are run against: two horses of two owners
FilterHorseTables ==
  { { [id |-> 1, tracking_id |-> "DM20240001", name |-> "Thunder Bolt",
       registration_number |-> NULL, breed |-> breed, color |-> "",
       owner_id |-> 1, status |-> st, current_location_id |-> NoId,
       current_activity |-> NULL],
      [id |-> 2, tracking_id |-> "DM20240002", name |-> "star",
       registration_number |-> "REG-7", breed |-> "Arabian", color |-> "Bay",
       owner_id |-> o, status |-> "active", current_location_id |-> NoId,
       current_activity |-> "walking"] }
    : st \in {"active", "injured"}, breed \in {NULL, "Thoroughbred"}, o \in {1, 2} }

\* the races table the filters are run against
FilterRaces ==
  { [id |-> 1, name |-> "Pacific Classic", race_date |-> 2, track |-> "Del Mar",
     race_type |-> "Stakes", status |-> "scheduled"],
    [id |-> 2, name |-> "Opening Day", race_date |-> 1, track |-> "Del Mar",
     race_type |-> "Allowance", status |-> "completed"] }

\* useUnifiedFilters: the statuses of useState filterData, which the status
\* select of UnifiedFilters offers after 'all'
StatusOptions == {"active", "inactive", "injured", "retired"}

\* the values the selects and the search box of UnifiedFilters can send
FilterValues(key) ==
  CASE key = "owner" -> {"all", "1", "2"}
    [] key = "horse" -> {"all", "1"}
    [] key = "status" -> {"all"} \cup StatusOptions
    [] key = "location" -> {"all", "2"}
    [] key = "race" -> {"all", "1"}
    [] key = "searchTerm" -> {"", "BOLT", "r b", "del"}

FilterKeys == {"owner", "horse", "status", "location", "race", "searchTerm"}

\* the owners, with the optional fields the owner search reads
FilterOwners ==
  { [id |-> 1, name |-> "John Smith Racing", email |-> "john@smithracing.com",
     phone |-> "555-0101", address |-> NULL],
    [id |-> 2, name |-> "Golden Gate Stables", email |-> "info@goldengatestables.com",
     phone |-> "555-0102", address |-> "1 Delta Road"] }

\* the pages before any has loaded; horse 1 stands in location 1, horse 2 has
\* no assignment
InitPagesOn(racesData) ==
  /\ locations = {[id |-> 1, name |-> "Barn A", capacity |-> 50],
                  [id |-> 2, name |-> "Main Track", capacity |-> 20]}
  /\ location_assignments =
       {[id |-> 1, horse_id |-> 1, location_id |-> 1, assigned_at |-> 1,
         assigned_until |-> NoDate]}
  /\ races = racesData
  /\ race_participants = {[id |-> 1, race_id |-> 1, horse_id |-> 1]}
  /\ nextOwnerId = 3
  /\ nextHorseId = 3
  /\ nextLocationId = 3
  /\ mgmtHorses = {}
  /\ mgmtOwners = {}
  /\ loadPending = FALSE
  /\ selectedSeason = "2024"
  /\ selectedRacetrack = "Del Mar"
  /\ toast = NoToast
  /\ attempts = 0
  /\ genTrackingId = NoTrackingId
  /\ genState = "returned"
  /\ horseStatuses = <<>>
  /\ problemHorses = <<>>
  /\ gridHorses = <<>>
  /\ horsesWithLocations = <<>>
  /\ page = ""
  /\ users = SeedUsers
  /\ storedUser = NoItem
  /\ authLoading = FALSE
  /\ filters = DefaultFilters
  /\ filterData = EmptyFilterData
  /\ pageHorses = <<>>
  /\ allHorses = <<>>
  /\ pageRaces = <<>>
  /\ reportData = NoReport
  /\ InitAsync

InitPages == InitPagesOn(FilterRaces)

\* an admin is logged in
InitFilter ==
  /\ InitPages
  /\ owners = FilterOwners
  /\ horses \in FilterHorseTables
  /\ user \in {u \in SeedUsers : u.role = "admin"}

\* the `enabledFilters` each page passes to UnifiedFilters
enabledFilters(route) ==
  CASE route = "/" -> {"owner", "status", "searchTerm"}
    [] route = "/races" -> {"status", "searchTerm"}
    [] route = "/reports" -> {"owner", "status", "race", "searchTerm"}
    [] route \in {"/horses", "/command", "/problems", "/data-grid"} ->
         {"owner", "status", "location", "searchTerm"}
    [] OTHER -> {}

\* the controls of UnifiedFilters on the mounted page
UpdateFilter ==
  \E key \in FilterKeys \cap enabledFilters(page) :
    \E value \in FilterValues(key) : updateFilter(key, value)

ClearFilters == page # "" /\ clearFilters

NextFilter ==
  \/ loadHorses
  \/ loadCommandData
  \/ loadRaces
  \/ loadFilterData
  \/ UpdateFilter
  \/ ClearFilters
SpecFilter == InitFilter /\ [][NextFilter]_vars

\* the lists the pages render: getFilteredData of the page's list
filteredHorses == getFilteredData(pageHorses, "horses", filters)

\* CommandCenter: the statuses rendered
filteredHorseStatuses == getFilteredData(horseStatuses, "status.horse", filters)

baseFilteredRaces == getFilteredData(pageRaces, "races", filters)

\* ----------------------------------------------------------- claims (filters)
\* C11: every equality filter that is not 'all' restricts the horses a page
\* shows: owner to the horses of that owner, status to that status, location to
\* the horses whose resolved location has that id, horse to that horse.
C11_EqualityFiltersRestrict ==
  /\ \A e \in Shown(filteredHorseStatuses) :
       /\ filters.owner # "all" => e.horse.owner_id = parseInt(filters.owner)
       /\ filters.status # "all" => e.horse.status = filters.status
       /\ filters.location # "all" =>
            (e.location # NoRow /\ e.location.id = parseInt(filters.location))
       /\ filters.horse # "all" => e.horse.id = parseInt(filters.horse)
  /\ \A horse \in Shown(filteredHorses) :
       /\ filters.owner # "all" => horse.owner_id = parseInt(filters.owner)
       /\ filters.status # "all" => horse.status = filters.status
       /\ filters.horse # "all" => horse.id = parseInt(filters.horse)

\* the fields of the filter state that are active, and the state with one alone
ActiveKeys == {key \in FilterKeys : filters[key] # DefaultFilters[key]}
Alone(key) == [DefaultFilters EXCEPT ![key] = filters[key]]

\* the items of data, in order, that every single active field admits
Intersection(data, filterFn) ==
  SelectSeq(data, LAMBDA item :
    \A key \in ActiveKeys : item \in Shown(getFilteredData(data, filterFn, Alone(key))))

\* C12: with two or more active fields getFilteredData returns, in input order,
\* the intersection of the lists each active field returns alone, for
\* filterFunctions.horses (horses page, command center) and filterFunctions.races.
C12_FilterConjunction ==
  Cardinality(ActiveKeys) >= 2 =>
    /\ filteredHorses = Intersection(pageHorses, "horses")
    /\ filteredHorseStatuses = Intersection(horseStatuses, "status.horse")
    /\ baseFilteredRaces = Intersection(pageRaces, "races")

\* two active fields that each admit a horse, and no horse passes both
C12_Witness ==
  /\ page = "/horses"
  /\ Cardinality(ActiveKeys) >= 2
  /\ \A key \in ActiveKeys :
       /\ getFilteredData(pageHorses, "horses", Alone(key)) # <<>>
       /\ getFilteredData(pageHorses, "horses", Alone(key)) # filteredHorses

\* every list of the mounted page passes the filters whole
Unfiltered ==
  /\ filteredHorses = pageHorses
  /\ filteredHorseStatuses = horseStatuses
  /\ baseFilteredRaces = pageRaces
  /\ getFilteredData(filterData.owners, "owners", filters) = filterData.owners

\* C13: clearFilters replaces the filter state by the six sentinels in one step,
\* whatever updateFilter calls came before; in that state every list passes
\* whole, and a following updateFilter(k, v) changes field k only.
C13_ClearFiltersResets ==
  /\ [](filters = DefaultFilters => Unfiltered)
  /\ [][clearFilters => (filters' = DefaultFilters /\ Unfiltered')]_vars
  /\ [][\A key \in FilterKeys : \A value \in FilterValues(key) :
          (filters = DefaultFilters /\ updateFilter(key, value)) =>
            /\ filters' = [DefaultFilters EXCEPT ![key] = value]
            /\ \A other \in FilterKeys \ {key} : filters'[other] = DefaultFilters[other]]_vars

\* after a reset, one field is active and it alone has removed a horse
C13_Witness ==
  /\ page = "/horses"
  /\ Cardinality(ActiveKeys) = 1
  /\ filteredHorses # pageHorses
  /\ filteredHorses # <<>>

\* a string with every letter in the given case ("lower" or "upper")
RECURSIVE InCase(_, _)
InCase(str, case) ==
  IF str = "" THEN ""
  ELSE LET c == SubSeq(str, 1, 1)
           from == IF case = "lower" THEN UpperCase ELSE LowerCase
           to == IF case = "lower" THEN LowerCase ELSE UpperCase
           hits == {i \in 1..Len(from) : SubSeq(from, i, i) = c}
           d == IF hits = {} THEN c ELSE LET i == CHOOSE i \in hits : TRUE IN SubSeq(to, i, i)
       IN d \o InCase(SubSeq(str, 2, Len(str)), case)

\* the non-empty searchable fields of a horse, joined by single spaces
RECURSIVE Spaced(_)
Spaced(fields) ==
  IF fields = <<>> THEN ""
  ELSE IF Head(fields) \in {NULL, ""} THEN Spaced(Tail(fields))
  ELSE IF Spaced(Tail(fields)) = "" THEN Head(fields)
  ELSE Head(fields) \o " " \o Spaced(Tail(fields))

SearchText(horse) ==
  Spaced(<<horse.name, horse.tracking_id, horse.registration_number, horse.breed,
           horse.color, IF horse.owner # NoRow THEN horse.owner.name ELSE NULL>>)

IsSubstring(part, whole) ==
  \E i \in 0..Len(whole) : \E j \in i..Len(whole) : SubSeq(whole, i + 1, j) = part

\* the horse with its searchable fields in upper case
UpperHorse(horse) ==
  [horse EXCEPT !.name = InCase(@, "upper"),
                !.breed = IF @ = NULL THEN NULL ELSE InCase(@, "upper"),
                !.color = InCase(@, "upper")]

\* C14: with the equality filters at 'all', a horse of the horses page passes
\* iff the search term is empty or, lower-cased, is a substring of the horse's
\* lower-cased search text; the case of the term and of the fields is immaterial.
C14_SearchIsCaselessSubstring ==
  (filters.owner = "all" /\ filters.status = "all" /\ filters.location = "all"
     /\ filters.horse = "all" /\ filters.race = "all") =>
    \A horse \in Shown(pageHorses) :
      LET admitted == horse \in Shown(filteredHorses)
      IN /\ admitted <=>
              \/ filters.searchTerm = ""
              \/ IsSubstring(InCase(filters.searchTerm, "lower"),
                             InCase(SearchText(horse), "lower"))
         /\ \A case \in {"lower", "upper"} :
              admitted <=> filterFunctionsHorses(horse,
                             [filters EXCEPT !.searchTerm = InCase(@, case)])
         /\ admitted <=> filterFunctionsHorses(UpperHorse(horse), filters)

\* the upper-case term BOLT finds "Thunder Bolt" and not "star"
C14_Witness ==
  /\ page = "/horses"
  /\ filters = [DefaultFilters EXCEPT !.searchTerm = "BOLT"]
  /\ \E horse \in Shown(filteredHorses) : horse.name = "Thunder Bolt"
  /\ Len(filteredHorses) < Len(pageHorses)

\* ------------------------------------------------------ claims (season import)
\* C15: a season import of a file in which some row has another Season or
\* Racetrack than the selected ones writes nothing: owners, locations and
\* horses are unchanged.
C15_MismatchImportsNothing ==
  [][\A data \in Files(SeasonRows) :
       (/\ handleCSVImport(data)
        /\ \E i \in DOMAIN data :
             \/ data[i].Season # selectedSeason
             \/ data[i].Racetrack # selectedRacetrack)
       => UNCHANGED <<owners, locations, horses>>]_vars

\* C16: exporting the season data and importing that file under the same
\* selection creates no owner, location or horse row.
C16_RoundTripCreatesNoRow ==
  [][ExportThenImport =>
       /\ Cardinality(owners') = Cardinality(owners)
       /\ Cardinality(locations') = Cardinality(locations)
       /\ Cardinality(horses') = Cardinality(horses)]_vars

\* ------------------------------------------------------------ authentication
\* a local storage item: text that JSON.parse rejects, or the text of a value
Text(str) == <<"text", str>>
Json(value) == <<"json", value>>

\* a thrown error or rejected promise inside initAuth's try block, and JSON null
Rejected == [rejected |-> TRUE]
JsonNull == [null |-> TRUE]

\* JSON.parse(storedUser): the value, or the SyntaxError for text that is not JSON
JSONParse(item) == IF item[1] = "json" THEN item[2] ELSE Rejected

\* `if (storedUser)`: null and the empty string are falsy
Truthy(item) == item # NoItem /\ item # Text("")

\* `await db.users.get(userData.id)`: the row, undefined, or a rejection
\* (userData null or not an object with a valid key)
UsersGet(us, userData) ==
  IF userData = Rejected THEN Rejected
  ELSE IF userData = JsonNull THEN Rejected
  ELSE IF userData.id = NoId THEN Rejected
  ELSE First({u \in us : u.id = userData.id})

\* initializeDatabase: seeds an empty users table (and the rest of the store)
initializeDatabase ==
  IF users # {}
  THEN UNCHANGED <<users, storeVars>>
  ELSE /\ users' = SeedUsers
       /\ owners' = SeedOwners
       /\ horses' = SeedHorseRows
       /\ locations' = SeedLocations
       /\ nextOwnerId' = 3
       /\ nextHorseId' = SeedHorses + 1
       /\ nextLocationId' = 2

\* an initAuth that restores the stored copy once its id is found
initAuthTrustsCopy ==
  /\ authLoading
  /\ initializeDatabase
  /\ IF Truthy(storedUser)
     THEN LET dbUser == UsersGet(users', JSONParse(storedUser))
          IN IF dbUser = Rejected \/ dbUser = NoRow
             THEN storedUser' = NoItem /\ UNCHANGED user
             ELSE user' = JSONParse(storedUser) /\ UNCHANGED storedUser
     ELSE UNCHANGED <<storedUser, user>>
  /\ authLoading' = FALSE
  /\ UNCHANGED <<mgmtVars, seasonVars, selVars, asyncVars, genVars, viewVars, toast, filterVars, listVars>>

\* AuthProvider: the effect that runs once on app load
initAuth ==
  /\ authLoading
  /\ initializeDatabase
  /\ IF Truthy(storedUser)
     THEN LET dbUser == UsersGet(users', JSONParse(storedUser))
          IN IF dbUser = Rejected \/ dbUser = NoRow
             THEN storedUser' = NoItem /\ UNCHANGED user
             ELSE user' = dbUser /\ UNCHANGED storedUser
     ELSE UNCHANGED <<storedUser, user>>
  /\ authLoading' = FALSE
  /\ UNCHANGED <<mgmtVars, seasonVars, selVars, asyncVars, genVars, viewVars, toast, filterVars, listVars>>

\* the user row `where('username').equals(username).first()` whose password
\* matches, or no row: login returns true exactly when there is one
Authenticated(username, password) ==
  LET found == First({u \in users : u.username = username})
  IN IF found # NoRow /\ found.password_hash = password THEN found ELSE NoRow

\* login: the user of that name, if the password matches; else `return false`
login(username, password) ==
  LET found == Authenticated(username, password)
  IN /\ IF found # NoRow
        THEN user' = found /\ storedUser' = Json(found)
        ELSE UNCHANGED <<user, storedUser>>
     /\ UNCHANGED <<storeVars, mgmtVars, seasonVars, selVars, asyncVars, genVars, viewVars, toast,
                    users, authLoading, filterVars, listVars>>

\* a logout that leaves the stored session in place
logoutKeepsItem ==
  /\ user' = NoUser
  /\ UNCHANGED <<storeVars, mgmtVars, seasonVars, selVars, asyncVars, genVars, viewVars, toast,
                 users, storedUser, authLoading, filterVars, listVars>>

\* logout
logout ==
  /\ user' = NoUser
  /\ storedUser' = NoItem
  /\ UNCHANGED <<storeVars, mgmtVars, seasonVars, selVars, asyncVars, genVars, viewVars, toast,
                 users, authLoading, filterVars, listVars>>

\* the app is closed and opened again: the provider state is fresh
reload ==
  /\ ~authLoading
  /\ authLoading' = TRUE
  /\ user' = NoUser
  /\ UNCHANGED <<storeVars, mgmtVars, seasonVars, selVars, asyncVars, genVars, viewVars, toast,
                 users, storedUser, filterVars, listVars>>

\* the components other than the provider, idle
InitComponents ==
  /\ mgmtHorses = {}
  /\ mgmtOwners = {}
  /\ loadPending = FALSE
  /\ selectedSeason = "2024"
  /\ selectedRacetrack = "Del Mar"
  /\ toast = NoToast
  /\ attempts = 0
  /\ genTrackingId = NoTrackingId
  /\ genState = "returned"
  /\ location_assignments = {}
  /\ horseStatuses = <<>>
  /\ problemHorses = <<>>
  /\ gridHorses = <<>>
  /\ horsesWithLocations = <<>>
  /\ page = ""
  /\ filters = DefaultFilters
  /\ filterData = EmptyFilterData
  /\ pageHorses = <<>>
  /\ allHorses = <<>>
  /\ races = {}
  /\ race_participants = {}
  /\ pageRaces = <<>>
  /\ reportData = NoReport
  /\ InitAsync

\* users tables: the seeded one, with one or two users deleted, with a role
\* changed, empty
UserTables ==
  {SeedUsers, {}}
  \cup {SeedUsers \ {u, v} : u \in SeedUsers, v \in SeedUsers}
  \cup {(SeedUsers \ {u}) \cup {[u EXCEPT !.role = "viewer"]} : u \in {v \in SeedUsers : v.role = "owner"}}

\* what the browser can hold under 'equine_user'
StoredItems ==
  {NoItem, Text(""), Text("{oops"), Json(JsonNull), Json([id |-> NoId])}
  \cup {Json(u) : u \in SeedUsers}

InitAuth ==
  /\ InitComponents
  /\ users \in UserTables
  /\ IF users = {}
     THEN /\ owners = {} /\ horses = {} /\ locations = {}
          /\ nextOwnerId = 1 /\ nextHorseId = 1 /\ nextLocationId = 1
     ELSE /\ owners = SeedOwners /\ horses = SeedHorseRows /\ locations = SeedLocations
          /\ nextOwnerId = 3 /\ nextHorseId = SeedHorses + 1 /\ nextLocationId = 2
  /\ storedUser \in StoredItems
  /\ user = NoUser
  /\ authLoading = TRUE

Login ==
  \E u \in SeedUsers : \E password \in {u.password_hash, "wrong"} :
    login(u.username, password)

NextAuth ==
  \/ initAuth
  \/ Login
  \/ logout
  \/ reload
SpecAuth == InitAuth /\ [][NextAuth]_vars

\* ------------------------------------------------------------ claims (session)
\* the stored item is the text of an object whose id is a users row's id
MatchesUser(item, us) ==
  /\ item[1] = "json"
  /\ "id" \in DOMAIN item[2]
  /\ \E u \in us : u.id = item[2].id

\* C17 (as stated): when initAuth finishes, a stored entry that is unparseable
\* or whose id matches no users row has been removed and user is null; an
\* entry whose id matches has made user the users row of that id.
C17_SessionRevalidated ==
  [][initAuth =>
       /\ ~authLoading'
       /\ (storedUser # NoItem /\ ~MatchesUser(storedUser, users')) =>
            (storedUser' = NoItem /\ user' = NoUser)
       /\ MatchesUser(storedUser, users') =>
            (user' \in users' /\ user'.id = storedUser[2].id)]_vars

\* C17 (amended): the same for every stored entry but the empty string, which
\* initAuth takes for no entry: it stays in storage, and user is null.
C17_NonEmptySessionRevalidated ==
  [][initAuth =>
       /\ ~authLoading'
       /\ (storedUser \notin {NoItem, Text("")} /\ ~MatchesUser(storedUser, users')) =>
            (storedUser' = NoItem /\ user' = NoUser)
       /\ storedUser = Text("") => (storedUser' = Text("") /\ user' = NoUser)
       /\ MatchesUser(storedUser, users') =>
            (user' \in users' /\ user'.id = storedUser[2].id)]_vars

\* initAuth has restored a user whose stored copy carries another role
C17_Witness ==
  /\ ~authLoading
  /\ user \in users
  /\ storedUser[1] = "json"
  /\ MatchesUser(storedUser, users)
  /\ storedUser[2].role # user.role

\* ------------------------------------- specification of row-level visibility
\* a user with role owner is logged in; the owner row of the first owner may
\* have been deleted, together with its horses
InitVisible ==
  /\ InitPages
  /\ user \in {u \in SeedUsers : u.role = "owner"}
  /\ \E os \in {FilterOwners, {o \in FilterOwners : o.id = 2}}, hs \in FilterHorseTables :
       /\ owners = os
       /\ horses = {h \in hs : \E o \in os : o.id = h.owner_id}

\* the pages the navigation offers to the role owner, and their hook
NextVisible ==
  \/ loadHorses
  \/ loadDashboardData
  \/ loadReportData
  \/ loadFilterData
  \/ UpdateFilter
  \/ ClearFilters
SpecVisible == InitVisible /\ [][NextVisible]_vars

\* ------------------------------------------------------- claims (visibility)
\* the owner rows with the e-mail address of the logged-in user, their horses
OwnOwners == {o \in owners : o.email = user.email}
OwnHorses == {h \in horses : \E o \in OwnOwners : h.owner_id = o.id}
Elements(list) == {list[i] : i \in 1..Len(list)}

\* C18: for a logged-in user with role owner, every horse record in page
\* state on the horses page, the dashboard and the reports page - the page's
\* list and the filter option data filterData.horses and filterData.owners -
\* belongs to the owner row with the user's e-mail address (none if there is no
\* such row), and the loaded state is determined by the user's own horses.
C18_OwnerSeesOwnRows ==
  (user # NoUser /\ user.role = "owner") =>
    /\ \A row \in Elements(pageHorses) \cup Elements(allHorses) :
         \E h \in OwnHorses : h.id = row.id
    /\ Elements(filterData.horses) \subseteq OwnHorses
    /\ Elements(filterData.owners) \subseteq OwnOwners
    /\ page = "/horses" => Len(pageHorses) = Cardinality(OwnHorses)
    /\ page = "/" => Len(allHorses) = Cardinality(OwnHorses)
    /\ page = "/reports" => reportData.totalHorses = Cardinality(OwnHorses)

\* ------------------------ horse-creating operations, by their await points
\* addHorse, handleBulkImport (one row) and the season handleCSVImport (one row)
OpKinds == {"addHorse", "handleBulkImport", "handleCSVImport"}

\* the row `db.horses.add` is called with, once the store has given it an id
OpHorse(kind, id, trackingId) ==
  [id |-> id, tracking_id |-> trackingId, owner_id |-> 1, status |-> "active",
   current_location_id |-> (IF kind = "handleCSVImport" THEN 1 ELSE NoId),
   current_activity |-> (IF kind = "handleCSVImport" THEN "Stabled" ELSE "")]

\* the operation of a tab up to the await of its last lookup. addHorse and
\* handleBulkImport: `await generateTrackingId()`, which returns an id that no row
\* holds at its last lookup, or throws. handleCSVImport: the row's TrackingID and
\* `await db.horses.where('tracking_id').equals(trackingId).first()`
lookupTrackingId(tab, kind) ==
  /\ ops[tab].pc = "idle"
  /\ IF kind = "handleCSVImport"
     THEN \E trackingId \in RandomTrackingIds :
            LET existingHorse == First({h \in horses : h.tracking_id = trackingId})
            IN ops' = [ops EXCEPT ![tab] =
                         [kind |-> kind,
                          pc |-> IF existingHorse = NoRow THEN "insert" ELSE "done",
                          trackingId |-> trackingId, attempts |-> 1]]
     ELSE \E trackingId \in GenerateTrackingId(horses) :
            ops' = [ops EXCEPT ![tab] =
                      IF trackingId = Throw
                      THEN [kind |-> kind, pc |-> "done", trackingId |-> NoTrackingId,
                            attempts |-> MaxAttempts + 1]
                      ELSE [kind |-> kind, pc |-> "insert", trackingId |-> trackingId,
                            attempts |-> 1]]
  /\ UNCHANGED <<storeVars, mgmtVars, seasonVars, selVars, genVars, viewVars, toast, restVars,
                 loads, finished, isLoading>>

\* `await db.horses.add({...})` of the operation: the table has no unique index
\* on tracking_id, the add succeeds whatever the table holds
insertHorse(tab) ==
  /\ ops[tab].pc = "insert"
  /\ horses' = horses \cup {OpHorse(ops[tab].kind, nextHorseId, ops[tab].trackingId)}
  /\ nextHorseId' = nextHorseId + 1
  /\ ops' = [ops EXCEPT ![tab].pc = "done"]
  /\ UNCHANGED <<owners, locations, nextOwnerId, nextLocationId, mgmtVars, seasonVars, selVars,
                 genVars, viewVars, toast, restVars, loads, finished, isLoading>>

LookupTrackingId == \E tab \in Tabs, kind \in OpKinds : lookupTrackingId(tab, kind)
InsertHorse == \E tab \in Tabs : insertHorse(tab)

\* two tabs are open on a store whose horses hold some of the candidate ids
InitTabs ==
  /\ InitRest
  /\ owners = SeedOwners
  /\ horses \in TakenTables
  /\ locations = SeedLocations
  /\ nextOwnerId = 3
  /\ nextHorseId = MaxRandom + 1
  /\ nextLocationId = 2
  /\ mgmtHorses = {}
  /\ mgmtOwners = {}
  /\ loadPending = FALSE
  /\ selectedSeason = "2024"
  /\ selectedRacetrack = "Del Mar"
  /\ toast = NoToast
  /\ attempts = 0
  /\ genTrackingId = NoTrackingId
  /\ genState = "returned"
  /\ location_assignments = {}
  /\ horseStatuses = <<>>
  /\ problemHorses = <<>>
  /\ gridHorses = <<>>
  /\ horsesWithLocations = <<>>
  /\ page = ""

NextTabs ==
  \/ LookupTrackingId
  \/ InsertHorse
SpecTabs == InitTabs /\ [][NextTabs]_vars

\* ------------------------------ loadCommandData, by its await points
\* `await db.<table>.toArray()` of a call: the read is taken when it resolves
awaitRead(call, at, table, rows, then) ==
  /\ page = "/command"
  /\ loads[call].pc = at
  /\ loads' = [loads EXCEPT ![call] = [@ EXCEPT !.pc = then, ![table] = rows]]
  /\ UNCHANGED <<storeVars, mgmtVars, seasonVars, selVars, genVars, viewVars, toast, restVars,
                 ops, finished, isLoading>>

\* the effect on mount, the 30-second interval or the Refresh button starts a
\* call, whatever the state of the calls started before: `setIsLoading(true)`
\* and the first read is issued
startLoad(call) ==
  /\ page = "/command"
  /\ loads[call].pc = "idle"
  /\ loads' = [loads EXCEPT ![call].pc = "horses"]
  /\ isLoading' = TRUE
  /\ UNCHANGED <<storeVars, mgmtVars, seasonVars, selVars, genVars, viewVars, toast, restVars,
                 ops, finished>>

StartLoad == \E call \in Calls : startLoad(call)
ReadHorses == \E call \in Calls : awaitRead(call, "horses", "horses", horses, "owners")
ReadOwners == \E call \in Calls : awaitRead(call, "owners", "owners", owners, "locations")
ReadLocations ==
  \E call \in Calls : awaitRead(call, "locations", "locations", locations, "assignments")
ReadAssignments ==
  \E call \in Calls :
    awaitRead(call, "assignments", "assignments", location_assignments, "ready")

\* the statuses a call computes from its reads
StatusesOf(load) ==
  CommandStatuses(load.horses, load.owners, load.locations, load.assignments)

\* a call that would drop its result when a call with later reads has written
setHorseStatusesInOrder(call) ==
  /\ page = "/command"
  /\ loads[call].pc = "ready"
  /\ horseStatuses' =
       IF \E other \in Calls :
            /\ loads[other].pc = "done"
            /\ loads[call].horses # loads[other].horses
            /\ loads[call].horses \subseteq loads[other].horses
       THEN horseStatuses
       ELSE StatusesOf(loads[call])
  /\ loads' = [loads EXCEPT ![call].pc = "done"]
  /\ finished' = Append(finished, call)
  /\ isLoading' = FALSE
  /\ UNCHANGED <<storeVars, mgmtVars, seasonVars, selVars, genVars, toast, restVars, ops,
                 location_assignments, problemHorses, gridHorses, horsesWithLocations,
                 page>>

\* the synchronous tail of a call after its last read: the map and
\* `setHorseStatuses(statuses)`
setHorseStatuses(call) ==
  /\ page = "/command"
  /\ loads[call].pc = "ready"
  /\ horseStatuses' = StatusesOf(loads[call])
  /\ loads' = [loads EXCEPT ![call].pc = "done"]
  /\ finished' = Append(finished, call)
  /\ isLoading' = FALSE
  /\ UNCHANGED <<storeVars, mgmtVars, seasonVars, selVars, genVars, toast, restVars, ops,
                 location_assignments, problemHorses, gridHorses, horsesWithLocations,
                 page>>

SetHorseStatuses == \E call \in Calls : setHorseStatuses(call)

\* the command center is mounted; other tabs add horses to the store meanwhile
InitOverlap ==
  /\ InitRest
  /\ owners = SeedOwners
  /\ horses \in {hs \in TakenTables : Cardinality(hs) <= 1}
  /\ locations = SeedLocations
  /\ nextOwnerId = 3
  /\ nextHorseId = MaxRandom + 1
  /\ nextLocationId = 2
  /\ mgmtHorses = {}
  /\ mgmtOwners = {}
  /\ loadPending = FALSE
  /\ selectedSeason = "2024"
  /\ selectedRacetrack = "Del Mar"
  /\ toast = NoToast
  /\ attempts = 0
  /\ genTrackingId = NoTrackingId
  /\ genState = "returned"
  /\ location_assignments = {}
  /\ horseStatuses = <<>>
  /\ problemHorses = <<>>
  /\ gridHorses = <<>>
  /\ horsesWithLocations = <<>>
  /\ page = "/command"

NextOverlap ==
  \/ StartLoad
  \/ ReadHorses
  \/ ReadOwners
  \/ ReadLocations
  \/ ReadAssignments
  \/ SetHorseStatuses
  \/ LookupTrackingId
  \/ InsertHorse
SpecOverlap == InitOverlap /\ [][NextOverlap]_vars

\* C20: loadCommandData calls overlap and nothing orders them: the statuses
\* shown are those written by the call that finished last, whatever the age of
\* its reads, so statuses computed from older reads can replace newer ones.
C20_LastFinisherWins ==
  finished # <<>> => horseStatuses = StatusesOf(loads[finished[Len(finished)]])

\* both calls have finished, the one that finished last had read the horses
\* before the other did, and the statuses shown lack a horse shown before
C20_Witness ==
  /\ Len(finished) = 2
  /\ loads[finished[2]].horses # loads[finished[1]].horses
  /\ loads[finished[2]].horses \subseteq loads[finished[1]].horses
  /\ horseStatuses = StatusesOf(loads[finished[2]])
  /\ Len(horseStatuses) < Len(StatusesOf(loads[finished[1]]))

\* ------------------------------------- loads against a store that changes
\* the command center is mounted in one tab; the management view of another
\* tab deletes horses and owners meanwhile
InitTorn ==
  /\ InitRest
  /\ owners = SeedOwners
  /\ horses = SeedHorseRows
  /\ locations = SeedLocations
  /\ nextOwnerId = 3
  /\ nextHorseId = SeedHorses + 1
  /\ nextLocationId = 2
  /\ mgmtHorses = {}
  /\ mgmtOwners = {}
  /\ loadPending = TRUE
  /\ selectedSeason = "2024"
  /\ selectedRacetrack = "Del Mar"
  /\ toast = NoToast
  /\ attempts = 0
  /\ genTrackingId = NoTrackingId
  /\ genState = "returned"
  /\ location_assignments = {}
  /\ horseStatuses = <<>>
  /\ problemHorses = <<>>
  /\ gridHorses = <<>>
  /\ horsesWithLocations = <<>>
  /\ page = "/command"

NextTorn ==
  \/ StartLoad
  \/ ReadHorses
  \/ ReadOwners
  \/ ReadLocations
  \/ ReadAssignments
  \/ SetHorseStatuses
  \/ LoadData
  \/ DeleteSelectedHorses
  \/ DeleteSelectedOwners
SpecTorn == InitTorn /\ [][NextTorn]_vars

\* every horse row of the store has its owner row
EveryHorseHasOwner == \A h \in horses : \E o \in owners : o.id = h.owner_id

\* C21: the reads of one loadCommandData are separate steps: while every store
\* state keeps each horse's owner row, a mutation between two reads gives a
\* joined view of no store state (a horse with owner undefined), and the view
\* shown changes only when a load writes it.
C21_TornViewStays ==
  /\ [](EveryHorseHasOwner)
  /\ [][horseStatuses' # horseStatuses => \E call \in Calls : setHorseStatuses(call)]_vars

\* a horse is shown with owner undefined, and no load is in flight
C21_Witness ==
  /\ EveryHorseHasOwner
  /\ \E i \in 1..Len(horseStatuses) : horseStatuses[i].owner = NoRow
  /\ \A call \in Calls : loads[call].pc \in {"idle", "done"}

\* ----------------------------------------------------- loads whose read fails
\* a load that would empty the list when a read fails
readFailsClears(call) ==
  /\ page = "/command"
  /\ loads[call].pc \in {"horses", "owners", "locations", "assignments"}
  /\ loads' = [loads EXCEPT ![call].pc = "failed"]
  /\ horseStatuses' = <<>>
  /\ isLoading' = FALSE
  /\ UNCHANGED <<storeVars, mgmtVars, seasonVars, selVars, genVars, toast, restVars, ops, finished,
                 location_assignments, problemHorses, gridHorses, horsesWithLocations,
                 page>>

\* loadCommandData: the read a call awaits rejects; `catch` logs the error, no
\* setter of the data runs, `finally` sets isLoading to false
readFails(call) ==
  /\ page = "/command"
  /\ loads[call].pc \in {"horses", "owners", "locations", "assignments"}
  /\ loads' = [loads EXCEPT ![call].pc = "failed"]
  /\ isLoading' = FALSE
  /\ UNCHANGED <<storeVars, mgmtVars, seasonVars, selVars, genVars, viewVars, toast, restVars,
                 ops, finished>>

\* the pages whose load is one try / catch / finally around its reads
LoadRoutes == {"/problems", "/horses", "/data-grid", "/races"}

\* loadProblemsData, loadHorses, loadGridData, loadRaces with a read that
\* rejects: the page keeps the list it shows (on mount: the initial empty state)
loadFails(route) ==
  /\ IF page = route
     THEN UNCHANGED <<horseStatuses, problemHorses, gridHorses, horsesWithLocations,
                      pageHorses, allHorses, pageRaces, reportData>>
     ELSE /\ DropViews
          /\ pageHorses' = <<>>
          /\ allHorses' = <<>>
          /\ pageRaces' = <<>>
          /\ reportData' = NoReport
  /\ page' = route
  /\ MountHook(route)
  /\ isLoading' = FALSE
  /\ UNCHANGED <<storeVars, mgmtVars, seasonVars, selVars, genVars, toast, authVars,
                 location_assignments, races, ops, loads, finished>>

ReadFails == \E call \in Calls : readFails(call)
LoadFails == \E route \in LoadRoutes : loadFails(route)

NextFail ==
  \/ StartLoad
  \/ ReadHorses
  \/ ReadOwners
  \/ ReadLocations
  \/ ReadAssignments
  \/ SetHorseStatuses
  \/ ReadFails
  \/ loadProblemsData
  \/ loadHorses
  \/ loadGridData
  \/ loadRaces
  \/ LoadFails
SpecFail == InitTorn /\ [][NextFail]_vars

\* the lists the pages show
Displayed ==
  <<horseStatuses, problemHorses, gridHorses, pageHorses, pageRaces>>

\* C22: when a table read of a page load fails, the data shown before the load
\* (or the initial empty state) is unchanged, isLoading is false afterwards, and
\* the load is not started again: no call starts with the failure, and the
\* failed call never runs again.
C22_FailedLoadKeepsState ==
  [][/\ \A call \in Calls :
          readFails(call) =>
            /\ Displayed' = Displayed
            /\ ~isLoading'
            /\ \A other \in Calls \ {call} : loads'[other] = loads[other]
     /\ \A route \in LoadRoutes :
          loadFails(route) =>
            /\ page = route => Displayed' = Displayed
            /\ page # route => Displayed' = <<<<>>, <<>>, <<>>, <<>>, <<>>>>
            /\ ~isLoading'
            /\ loads' = loads
     /\ \A call \in Calls : loads[call].pc = "failed" => loads'[call] = loads[call]]_vars

\* a call has failed after another call wrote its statuses: they are shown
C22_Witness ==
  /\ page = "/command"
  /\ ~isLoading
  /\ horseStatuses # <<>>
  /\ \E call \in Calls, other \in Calls :
       /\ loads[call].pc = "failed"
       /\ finished = <<other>>
       /\ horseStatuses = StatusesOf(loads[other])

\* ----------------------------------------------------- claims (concurrency)
\* C19: two horse-creating operations that interleave at their await points
\* never insert two horse rows with the same tracking_id: between the lookup of
\* one and its insert, the other cannot insert that id.
C19_NoDuplicateTrackingId ==
  \A h1 \in horses, h2 \in horses : h1.tracking_id = h2.tracking_id => h1.id = h2.id

\* ------------------------------ initializeDatabase, by its await points
\* number of awaited writes of the seeding: four users.add, two owners.add, the
\* bulkAdd of the locations and the bulkAdd of the horses
SeedWrites == 8

\* the seed user of a name, with the id the users table gives it next
SeedUser(username) ==
  LET u == CHOOSE v \in SeedUsers : v.username = username
  IN [u EXCEPT !.id = Cardinality(users) + 1]

\* `const userCount = await db.users.count(); if (userCount > 0) return;`
countUsers(tab) ==
  /\ ops[tab].pc = "idle"
  /\ ops' = [ops EXCEPT ![tab] =
               [kind |-> "initializeDatabase",
                pc |-> IF Cardinality(users) > 0 THEN "done" ELSE "seed",
                write |-> 1, owner1Id |-> NoId, owner2Id |-> NoId]]
  /\ UNCHANGED <<storeVars, mgmtVars, seasonVars, selVars, genVars, viewVars, toast, restVars,
                 loads, finished, isLoading>>

\* the next awaited write of a call that found the users table empty
seedWrite(tab) ==
  LET op == ops[tab]
      n == op.write
      owner(i) == [(CHOOSE o \in SeedOwners : o.id = i) EXCEPT !.id = nextOwnerId]
  IN
  /\ op.pc = "seed"
  /\ users' = CASE n = 1 -> users \cup {SeedUser("admin")}
                [] n = 2 -> users \cup {SeedUser("viewer")}
                [] n = 5 -> users \cup {SeedUser("johnsmith")}
                [] n = 6 -> users \cup {SeedUser("goldengate")}
                [] OTHER -> users
  /\ owners' = CASE n = 3 -> owners \cup {owner(1)}
                 [] n = 4 -> owners \cup {owner(2)}
                 [] OTHER -> owners
  /\ nextOwnerId' = IF n \in {3, 4} THEN nextOwnerId + 1 ELSE nextOwnerId
  /\ locations' =
       IF n = 7
       THEN locations \cup {[l EXCEPT !.id = nextLocationId + l.id - 1] : l \in SeedLocations}
       ELSE locations
  /\ nextLocationId' =
       IF n = 7 THEN nextLocationId + Cardinality(SeedLocations) ELSE nextLocationId
  /\ horses' =
       IF n = 8
       THEN horses \cup
              {[h EXCEPT !.id = nextHorseId + h.id - 1,
                         !.owner_id = IF h.owner_id = 1 THEN op.owner1Id ELSE op.owner2Id]
                 : h \in SeedHorseRows}
       ELSE horses
  /\ nextHorseId' = IF n = 8 THEN nextHorseId + SeedHorses ELSE nextHorseId
  /\ ops' = [ops EXCEPT ![tab] =
               [op EXCEPT !.pc = IF n = SeedWrites THEN "done" ELSE "seed",
                          !.write = IF n = SeedWrites THEN n ELSE n + 1,
                          !.owner1Id = IF n = 3 THEN nextOwnerId ELSE @,
                          !.owner2Id = IF n = 4 THEN nextOwnerId ELSE @]]
  /\ UNCHANGED <<mgmtVars, seasonVars, selVars, genVars, viewVars, toast, storedUser, user,
                 authLoading, filterVars, listVars, loads, finished, isLoading>>

CountUsers == \E tab \in Tabs : countUsers(tab)
SeedWrite == \E tab \in Tabs : seedWrite(tab)

\* the app is opened in the tabs; the database is new or has been seeded
InitSeed ==
  /\ InitComponents
  /\ users \in {{}, SeedUsers}
  /\ IF users = {}
     THEN /\ owners = {} /\ horses = {} /\ locations = {}
          /\ nextOwnerId = 1 /\ nextHorseId = 1 /\ nextLocationId = 1
     ELSE /\ owners = SeedOwners /\ horses = SeedHorseRows /\ locations = SeedLocations
          /\ nextOwnerId = 3 /\ nextHorseId = SeedHorses + 1 /\ nextLocationId = 2
  /\ storedUser = NoItem
  /\ user = NoUser
  /\ authLoading = TRUE

NextSeed ==
  \/ CountUsers
  \/ SeedWrite
SpecSeed == InitSeed /\ [][NextSeed]_vars

\* C26: initializeDatabase seeds at most once: whether its calls follow one
\* another or overlap at their await points, once no call is running the store
\* holds exactly the seed rows, and a call made after a completed seeding
\* changes no table.
C26_SeedsOnce ==
  (/\ \A tab \in Tabs : ops[tab].pc \in {"idle", "done"}
   /\ \E tab \in Tabs : ops[tab].pc = "done")
    => /\ users = SeedUsers
       /\ owners = SeedOwners
       /\ locations = SeedLocations
       /\ horses = SeedHorseRows

\* ------------------------------------------------ claims (views, continued)
\* C23: for every horse and every content of the tables, the problems view
\* emits at least one critical entry for the horse if and only if the command
\* center, computed from the same tables, gives the horse alert status red.
C23_CriticalIffRed ==
  \A horse \in horses :
    LET problems == ProblemsOf(horse, owners, locations, location_assignments)
        alert == CommandStatus(horse, owners, locations, location_assignments)
    IN (\E i \in DOMAIN problems : problems[i].problem = "critical")
         <=> alert.status = "red"

\* ------------------------------------------ claims (season import, continued)
\* the rows of the file a horse row can have been inserted for
RowsOf(data, horse) ==
  {i \in DOMAIN data :
     \/ data[i].TrackingID = horse.tracking_id
     \/ data[i].TrackingID = NoTrackingId /\ horse.tracking_id \in FallbackTrackingIds}

\* C25: every horse row the season handleCSVImport inserts has the owner_id of
\* the owner row whose email is the OwnerEmail of its CSV row, also when that
\* owner existed in the store under another name than the row's OwnerName.
C25_ImportedHorseOwnedByEmail ==
  [][\A data \in Files(SeasonRows) :
       handleCSVImport(data) =>
         \A horse \in horses' \ horses :
           \E i \in RowsOf(data, horse), o \in owners' :
             o.email = data[i].OwnerEmail /\ o.id = horse.owner_id]_vars

\* --------------------------------------------- claims (session, continued)
\* the app is opened in a browser whose 'equine_user' entry, if any, was
\* written by a login of the app
InitSession ==
  /\ InitAuth
  /\ storedUser \in {NoItem} \cup {Json(u) : u \in SeedUsers}

SpecSession == InitSession /\ [][NextAuth]_vars

InFlight(call) == loads[call].pc \notin {"idle", "done", "failed"}

\* C24: in the command center isLoading is true in every state in which a
\* loadCommandData call has started and not yet finished; it is false only
\* when no load is in flight.
C24_LoadingWhileInFlight ==
  (page = "/command" /\ \E call \in Calls : InFlight(call)) => isLoading


\* ------------------------------------------------- SeasonManagementPage rows
\* SeasonManagementPage.loadData: setHorses(horsesData) (the owners and the
\* locations it also keeps are read by the export alone)
seasonLoadData ==
  /\ seasonHorses' = ToArray(horses)
  /\ UNCHANGED <<storeVars, mgmtVars, seasonVars, race_participants, selectedHorseIds,
                 asyncVars, restVars, genVars, viewVars, toast>>

\* `prev.includes(horseId) ? prev.filter(id => id !== horseId) : [...prev, horseId]`
toggle(prev, horseId) ==
  IF horseId \in Elements(prev)
  THEN SelectSeq(prev, LAMBDA id : id # horseId)
  ELSE Append(prev, horseId)

\* handleSelectHorse of the season page and of the data grid (the same code)
handleSelectHorse(horseId) ==
  /\ selectedHorseIds' = toggle(selectedHorseIds, horseId)
  /\ UNCHANGED <<storeVars, mgmtVars, seasonVars, race_participants, seasonHorses,
                 asyncVars, restVars, genVars, viewVars, toast>>

\* `horses.map(h => h.id!)`
IdsOf(list) == [i \in 1..Len(list) |-> list[i].id]

\* SeasonManagementPage.handleSelectAll
seasonHandleSelectAll ==
  /\ selectedHorseIds' =
       IF Len(selectedHorseIds) = Len(seasonHorses) THEN <<>> ELSE IdsOf(seasonHorses)
  /\ UNCHANGED <<storeVars, mgmtVars, seasonVars, race_participants, seasonHorses,
                 asyncVars, restVars, genVars, viewVars, toast>>

\* a removal that also drops the assignment rows of the removed horses
handleBulkRemoveCascade ==
  /\ Len(selectedHorseIds) # 0
  /\ horses' = {h \in horses : h.id \notin Elements(selectedHorseIds)}
  /\ location_assignments' =
       {a \in location_assignments : a.horse_id \notin Elements(selectedHorseIds)}
  /\ selectedHorseIds' = <<>>
  /\ seasonHorses' = ToArray(horses')
  /\ toast' = Toast("Success", "Removed horses from season")
  /\ UNCHANGED <<owners, locations, nextOwnerId, nextHorseId, nextLocationId, mgmtVars,
                 seasonVars, race_participants, asyncVars, restVars, genVars,
                 horseStatuses, problemHorses, gridHorses, horsesWithLocations, page>>

\* SeasonManagementPage.handleBulkRemove: bulkDelete of the selection,
\* setSelectedHorses([]), loadData(), toast
handleBulkRemove ==
  /\ Len(selectedHorseIds) # 0
  /\ horses' = {h \in horses : h.id \notin Elements(selectedHorseIds)}
  /\ selectedHorseIds' = <<>>
  /\ seasonHorses' = ToArray(horses')
  /\ toast' = Toast("Success", "Removed horses from season")
  /\ UNCHANGED <<owners, locations, nextOwnerId, nextHorseId, nextLocationId, mgmtVars,
                 seasonVars, race_participants, asyncVars, restVars, genVars, viewVars>>

\* `horses.filter(h => h.owner_id === parseInt(selectedOwner))` over the page's list
ownerHorses(selectedOwner) ==
  SelectSeq(seasonHorses, LAMBDA h : h.owner_id = parseInt(selectedOwner))

\* SeasonManagementPage.handleOwnerBulkAction: only 'remove' does anything
handleOwnerBulkAction(action, selectedOwner) ==
  /\ selectedOwner # ""
  /\ IF action = "remove"
     THEN /\ horses' = {h \in horses : h.id \notin Elements(IdsOf(ownerHorses(selectedOwner)))}
          /\ seasonHorses' = ToArray(horses')
          /\ toast' = Toast("Success", "Removed all horses for selected owner")
          /\ UNCHANGED <<owners, locations, nextOwnerId, nextHorseId, nextLocationId,
                         mgmtVars, seasonVars, race_participants, selectedHorseIds,
                         asyncVars, restVars, genVars, viewVars>>
     ELSE UNCHANGED vars

\* rows are selected from the list the page shows
SeasonSelectHorse == \E horseId \in Elements(IdsOf(seasonHorses)) : handleSelectHorse(horseId)
\* the owner select offers '' and the ids of the owners
HandleOwnerBulkAction ==
  \E action \in {"add", "remove"}, selectedOwner \in {"", "1", "2"} :
    handleOwnerBulkAction(action, selectedOwner)

\* two horses of two owners stand in the one stall of Barn A; both are entered
\* in race 1
DeleteHorseTables ==
  { { [id |-> 1, tracking_id |-> DM(1), owner_id |-> 1, status |-> st1,
       current_location_id |-> NoId, current_activity |-> NULL],
      [id |-> 2, tracking_id |-> DM(2), owner_id |-> o2, status |-> st2,
       current_location_id |-> NoId, current_activity |-> NULL] }
    : st1 \in Statuses, st2 \in Statuses, o2 \in {1, 2} }

InitDelete ==
  /\ owners = SeedOwners
  /\ horses \in DeleteHorseTables
  /\ locations = {[id |-> 1, name |-> "Barn A", capacity |-> ViewCapacity]}
  /\ location_assignments =
       {[id |-> 1, horse_id |-> 1, location_id |-> 1, assigned_at |-> 1,
         assigned_until |-> NoDate],
        [id |-> 2, horse_id |-> 2, location_id |-> 1, assigned_at |-> 1,
         assigned_until |-> NoDate]}
  /\ races = FilterRaces
  /\ race_participants = {[id |-> 1, race_id |-> 1, horse_id |-> 1],
                          [id |-> 2, race_id |-> 1, horse_id |-> 2]}
  /\ nextOwnerId = 3
  /\ nextHorseId = 3
  /\ nextLocationId = 2
  /\ mgmtHorses = {}
  /\ mgmtOwners = {}
  /\ loadPending = TRUE
  /\ selectedSeason = "2024"
  /\ selectedRacetrack = "Del Mar"
  /\ toast = NoToast
  /\ attempts = 0
  /\ genTrackingId = NoTrackingId
  /\ genState = "returned"
  /\ horseStatuses = <<>>
  /\ problemHorses = <<>>
  /\ gridHorses = <<>>
  /\ horsesWithLocations = <<>>
  /\ page = ""
  /\ users = SeedUsers
  /\ storedUser = NoItem
  /\ user = NoUser
  /\ authLoading = FALSE
  /\ filters = DefaultFilters
  /\ filterData = EmptyFilterData
  /\ pageHorses = <<>>
  /\ allHorses = <<>>
  /\ pageRaces = <<>>
  /\ reportData = NoReport
  /\ InitAsync

NextDelete ==
  \/ LoadData
  \/ DeleteSelectedHorses
  \/ seasonLoadData
  \/ SeasonSelectHorse
  \/ seasonHandleSelectAll
  \/ handleBulkRemove
  \/ HandleOwnerBulkAction
  \/ loadProblemsData
  \/ loadRaces

SpecDelete == InitDelete /\ [][NextDelete]_vars

\* ------------------------------------------------------ claims (deletions)
\* the tables a horse deletion has no statement for
OtherTables == <<owners, locations, location_assignments, race_participants>>

\* C28: deleteSelectedHorses, handleBulkRemove and handleOwnerBulkAction('remove')
\* remove exactly the targeted horse rows and leave the owners, locations,
\* location_assignments and race_participants tables unchanged; the assignment
\* and participant rows of a deleted horse stay in the store.
C28_DeletionFrame ==
  [][/\ \A selectedHorses \in SUBSET Ids(mgmtHorses) :
          deleteSelectedHorses(selectedHorses)
            => /\ horses' = {h \in horses : h.id \notin selectedHorses}
               /\ UNCHANGED OtherTables
     /\ handleBulkRemove
          => /\ horses' = {h \in horses : h.id \notin Elements(selectedHorseIds)}
             /\ UNCHANGED OtherTables
     /\ \A selectedOwner \in {"1", "2"} :
          handleOwnerBulkAction("remove", selectedOwner)
            => /\ horses' = {h \in horses :
                               h.id \notin Elements(IdsOf(ownerHorses(selectedOwner)))}
               /\ UNCHANGED OtherTables]_vars

\* horse 2 has been removed on the season page; its assignment row is still
\* counted against the stall of Barn A, so the problems view reports horse 1 as
\* over capacity, and its participant row is still in race 1
C28_Witness ==
  /\ page = "/problems"
  /\ Ids(horses) = {1}
  /\ toast = Toast("Success", "Removed horses from season")
  /\ \E a \in location_assignments : a.horse_id = 2
  /\ \E p \in race_participants : p.horse_id = 2
  /\ \E i \in 1..Len(problemHorses) :
       /\ problemHorses[i].horse.id = 1
       /\ problemHorses[i].problemText = "Location Over Capacity"


\* ------------------------------------------ specification of the races page
\* Race.status
RaceStatuses == {"scheduled", "running", "completed", "cancelled"}

\* the two races of the filter runs, in every status
RaceTables ==
  { { [id |-> 1, name |-> "Pacific Classic", race_date |-> 2, track |-> "Del Mar",
       race_type |-> "Stakes", status |-> st1],
      [id |-> 2, name |-> "Opening Day", race_date |-> 1, track |-> "Del Mar",
       race_type |-> "Allowance", status |-> st2] }
    : st1 \in RaceStatuses, st2 \in RaceStatuses }

InitRaces ==
  /\ \E racesData \in RaceTables : InitPagesOn(racesData)
  /\ owners = FilterOwners
  /\ horses = {}
  /\ user \in {u \in SeedUsers : u.role = "admin"}

NextRaces ==
  \/ loadRaces
  \/ loadFilterData
  \/ UpdateFilter
  \/ ClearFilters

SpecRaces == InitRaces /\ [][NextRaces]_vars

\* -------------------------------------------------- claims (races page)
\* C29: on the races page the status filter compares race.status with the
\* selected value, and the values the status select offers besides 'all' are the
\* horse statuses: with any of them selected the filtered race list is empty,
\* whatever status (scheduled, running, completed, cancelled) the races have.
C29_HorseStatusHidesRaces ==
  page = "/races" =>
    /\ filters.status # "all" =>
         \A race \in Shown(baseFilteredRaces) : race.status = filters.status
    /\ filters.status \in StatusOptions => baseFilteredRaces = <<>>

\* the races page has loaded a running and a cancelled race, 'retired' is
\* selected and nothing else is, and no race is listed
C29_Witness ==
  /\ page = "/races"
  /\ {pageRaces[i].status : i \in 1..Len(pageRaces)} = {"running", "cancelled"}
  /\ filters = [DefaultFilters EXCEPT !.status = "retired"]
  /\ baseFilteredRaces = <<>>


\* ------------------------------------------- specification of the data grid
\* the place of a name of FilterHorseTables in the `<` order of the lowercased
\* names (sortField 'name', sortDirection 'asc', the initial sort)
NameRank(name) ==
  CASE name = "star" -> 1
    [] name = "Thunder Bolt" -> 2

\* `baseFilteredHorses.sort((a, b) => ...)` on the name column, ascending
RECURSIVE SortByName(_)
SortByName(rows) ==
  IF rows = <<>> THEN <<>>
  ELSE LET last == rows[Len(rows)]
           sorted == SortByName(SubSeq(rows, 1, Len(rows) - 1))
           before == SelectSeq(sorted, LAMBDA r :
                       NameRank(r.horse.name) <= NameRank(last.horse.name))
           after == SelectSeq(sorted, LAMBDA r :
                      NameRank(r.horse.name) > NameRank(last.horse.name))
       IN before \o <<last>> \o after

\* DataGridPage: the rows rendered
gridFilteredHorses == SortByName(getFilteredData(gridHorses, "grid.horse", filters))

\* `filteredHorses.map(h => h.id!)`
GridIds(rows) == [i \in 1..Len(rows) |-> rows[i].horse.id]

\* DataGridPage.handleSelectAll
handleSelectAll ==
  /\ page = "/data-grid"
  /\ selectedHorseIds' =
       IF Len(selectedHorseIds) = Len(gridFilteredHorses)
       THEN <<>>
       ELSE GridIds(gridFilteredHorses)
  /\ UNCHANGED <<storeVars, mgmtVars, seasonVars, race_participants, seasonHorses,
                 asyncVars, restVars, genVars, viewVars, toast>>

\* the checkbox of a rendered row
GridSelectHorse ==
  /\ page = "/data-grid"
  /\ \E horseId \in Elements(GridIds(gridFilteredHorses)) : handleSelectHorse(horseId)

InitGrid == InitFilter

NextGrid ==
  \/ loadGridData
  \/ UpdateFilter
  \/ ClearFilters
  \/ GridSelectHorse
  \/ handleSelectAll

SpecGrid == InitGrid /\ [][NextGrid]_vars

\* ---------------------------------------------------- claims (data grid)
\* the selection is exactly the set of the rows rendered
AllFilteredSelected ==
  Elements(selectedHorseIds) = Elements(GridIds(gridFilteredHorses))

\* C30: after any handleSelectHorse toggles and filter changes, handleSelectAll,
\* invoked when the selection is not exactly the set of the filtered horses,
\* makes the selection exactly the ids of the filtered horses; it clears the
\* selection only when every filtered horse, and nothing else, is selected.
C30_SelectAllSelectsFiltered ==
  [][(handleSelectAll /\ ~AllFilteredSelected) =>
       Elements(selectedHorseIds') = Elements(GridIds(gridFilteredHorses))]_vars

====
